---------------------------- MODULE Spec2Model ----------------------------
(***************************************************************************)
(* Verification model of solana-streamer: the subscription controller      *)
(* (streaming/yellowstone_grpc.rs), the transaction walker and arbitrage   *)
(* marker (event_parser/core/event_parser.rs), the CPI merge rule          *)
(* (event_parser/core/merger_event.rs) and the per-signature registry      *)
(* (event_parser/core/global_state.rs).                                    *)
(*                                                                         *)
(* One module, several specifications over the same variables:             *)
(*   Spec          the subscription controller, concurrent callers         *)
(*   SpecWalk      the gRPC transaction walker, one transaction            *)
(*   SpecGroup     one outer instruction with its inner-instruction group  *)
(*   SpecMerge     merge() applied to an instruction event and a CPI event *)
(*   SpecRegistry  GlobalState under concurrent add_dev_address calls      *)
(*   SpecMetrics   the process-wide metrics under several clients          *)
(* A specification leaves the variables of the other components at their   *)
(* initial values.                                                         *)
(***************************************************************************)
EXTENDS Integers, Sequences, FiniteSets, TLC

VARIABLES
    \* ---- YellowstoneGrpc (yellowstone_grpc.rs:40-52) ----
    active_subscription,   \* AtomicBool
    subscription_handle,   \* Option<SubscriptionHandle>: None or a task id
    handle_lock,           \* holder of the subscription_handle mutex, or Free
    control_tx,            \* Option<mpsc::Sender>: None or the receiving task's id
    current_request,       \* Option<SubscribeRequest>
    event_type_filter,     \* Option<EventTypeFilter> stored in the client
    tasks,                 \* the stream tasks spawned so far, in spawn order
    pc,                    \* per caller: position inside the call it is executing
    local,                 \* per caller: the call's arguments and locals
    result,                \* per caller: return value of its last finished call
    ncalls,                \* number of calls started (bounds the run)
    acqLog,                \* history: one entry per successful CAS on the flag
    stopsBegun,            \* history: stop() calls entered
    stopsReturned,         \* history: stop() calls returned
    \* ---- GlobalState (global_state.rs:20-27) ----
    signature_data,        \* DashMap<Signature, SignatureAddresses>
    signature_count,       \* AtomicUsize
    generation,            \* AtomicU64
    rpc,                   \* per registry thread: position inside add_*_address
    rlocal,                \* per registry thread: arguments and locals of its call
    nadds,                 \* number of add_*_address calls started (bounds the run)
    \* ---- merge (merger_event.rs) ----
    instruction,           \* the outer instruction being parsed
    inner_instruction,     \* the inner instruction carrying the CPI event log
    instruction_event,     \* merge's first argument (updated in place)
    cpi_log_event,         \* merge's second argument
    mpc,                   \* position: "start", "parsed", "decoded", "merged", "remerged"
    \* ---- transaction walker (event_parser.rs:219-350) ----
    tx_signature,          \* the signature of the transaction
    tx_slot,               \* its slot: Option<u64>, <<>> for None and <<n>> for Some(n)
    protocols,             \* the protocol allow-list
    type_filter,           \* the event-type filter (None, or its include set)
    compiled_instructions, \* the outer instructions of the transaction
    all_inner_instructions,\* the inner-instruction groups, each with its outer index
    log_messages,          \* the log lines of the transaction
    program_data_index,    \* Option<ProgramDataIndex>: <<>> for None, <<i>> for Some(i)
    builds,                \* history: where build_program_data_index was called
    wpc,                   \* position of the walker
    index,                 \* outer instruction being visited (0-based)
    inner_idx,             \* inner instruction being visited (0-based)
    inner_events,          \* events parsed from the current group
    delivered,             \* the events the callback received, in order
    \* ---- program-data index (program_data_index.rs) ----
    index_logs,            \* the log lines of the transaction
    index_outer_len,       \* the number of its outer instructions
    index_groups,          \* its inner-instruction groups: index and length of each
    scan,                  \* spans, stack of open spans, positions read so far
    log_idx,               \* the log line to read next (0-based)
    built,                 \* the ProgramDataIndex under construction
    ipc,                   \* position of the build
    \* ---- the stream task and its channels (yellowstone_grpc.rs:169-275) ----
    stream_task,           \* "none", "running", "cancelling", "aborted", "exited"
    polled,                \* the task is being polled by a worker thread
    tpc,                   \* position of the task inside its loop
    frames,                \* frames the upstream stream holds ready, in order
    subscribe_tx,          \* holder of the write-half mutex, or Free
    control_rx,            \* requests waiting in the control channel
    pongs,                 \* replies written to the write half
    stop_pc,               \* position of the caller of stop()
    nframes,               \* frames received so far (bounds the run)
    entered,               \* history: callback invocations entered
    late,                  \* history: those entered after stop() had returned
    \* ---- account frames (account_event_parser.rs:59-145) ----
    acct,                  \* the account frame being parsed
    acct_protocols,        \* the protocol allow-list
    acct_filter,           \* the event-type filter (None, or its include set)
    apc,                   \* position inside parse_account_event and its caller
    acct_result,           \* what parse_account_event returns (NoEvent for None)
    tried,                 \* history: the decoders called, with what each returned
    acct_delivered,        \* the events the callback received
    \* ---- metrics (common/metrics.rs:285-293, yellowstone_grpc.rs:61-82) ----
    metrics_enabled,       \* static METRICS_ENABLED: AtomicBool
    background_task_started, \* static BACKGROUND_TASK_STARTED: AtomicBool
    event_metrics,         \* GLOBAL_METRICS.event_metrics: the counters of each frame kind
    client_config,         \* per client: <<>> before it is created, then <<enable_metrics>>
    frame_pc,              \* per client: the frame its task is processing, if any
    frames_of              \* per client: frames its task has taken (bounds the run)

clientVars == <<active_subscription, subscription_handle, handle_lock, control_tx,
                current_request, event_type_filter, tasks, pc, local, result,
                ncalls, acqLog, stopsBegun, stopsReturned>>

registryVars == <<signature_data, signature_count, generation, rpc, rlocal, nadds>>

mergeVars == <<instruction, inner_instruction, instruction_event, cpi_log_event, mpc>>

\* what the walker is called with
walkInput == <<tx_signature, tx_slot, protocols, type_filter, compiled_instructions,
               all_inner_instructions, log_messages>>

walkVars == <<walkInput, wpc, index, inner_idx, inner_events, delivered,
              program_data_index, builds>>

streamVars == <<stream_task, polled, tpc, frames, subscribe_tx, control_rx, pongs,
                stop_pc, nframes, entered, late>>

indexVars == <<index_logs, index_outer_len, index_groups, scan, log_idx, built, ipc>>

accountVars == <<acct, acct_protocols, acct_filter, apc, acct_result, tried, acct_delivered>>

metricsVars == <<metrics_enabled, background_task_started, event_metrics, client_config,
                 frame_pc, frames_of>>

vars == <<clientVars, registryVars, mergeVars, walkVars, streamVars, indexVars, accountVars,
          metricsVars>>

\* What the operations of one component leave alone
notClient == <<registryVars, mergeVars, walkVars, streamVars, indexVars, accountVars,
               metricsVars>>
notRegistry == <<clientVars, mergeVars, walkVars, streamVars, indexVars, accountVars,
                 metricsVars>>
notMerge == <<clientVars, registryVars, walkVars, streamVars, indexVars, accountVars,
              metricsVars>>
notWalk == <<clientVars, registryVars, mergeVars, streamVars, indexVars, accountVars,
             metricsVars>>
notStream == <<clientVars, registryVars, mergeVars, walkVars, indexVars, accountVars,
               metricsVars>>
notIndex == <<clientVars, registryVars, mergeVars, walkVars, streamVars, accountVars,
              metricsVars>>
notAccount == <<clientVars, registryVars, mergeVars, walkVars, streamVars, indexVars,
                metricsVars>>
notMetrics == <<clientVars, registryVars, mergeVars, walkVars, streamVars, indexVars,
                accountVars>>

-----------------------------------------------------------------------------
(* Bounds of the model *)

MaxCalls == 4      \* calls started on one client
MaxTasks == 2      \* stream tasks spawned on one client
MaxMetricFrames == 2   \* frames one client's task takes
MaxFrameEvents == 2    \* events one transaction frame yields
MaxChan  == 1      \* requests waiting in the control channel
MaxAdds  == 8      \* add_dev_address / add_bonk_dev_address calls started
NumSigs  == 7      \* distinct transaction signatures
MaxOuter == 2      \* outer instructions of a walked transaction
MaxInner == 2      \* inner instructions of one of its groups
MaxGroup == 4      \* inner instructions of the group of a single-instruction transaction
MaxFrames == 4     \* frames one stream delivers
MaxReady == 2      \* frames the stream holds ready at one time
MaxLogs == 5       \* log lines of a transaction

-----------------------------------------------------------------------------
(* Subscription controller: streaming/yellowstone_grpc.rs *)

Callers == {"c1", "c2"}
None == "None"
Free == "Free"
NoTask == 0          \* Option<task> = None
\* Option<SubscribeRequest> = None
NoFilterMap == [filter |-> None, event_type_filter |-> None]
NoRequest == [transactions |-> NoFilterMap, accounts |-> NoFilterMap, commitment |-> None]

FilterIds   == {"F1", "F2"}          \* transaction / account filter arguments
EventFilters == {None, "E1"}         \* event_type_filter arguments
Commitments == {None, "Processed"}   \* commitment arguments

\* SubscriptionManager::get_subscribe_request_filter and
\* ::subscribe_with_account_request: the filter map built from the caller's
\* filters under an event-type filter (left uninterpreted)
get_subscribe_request_filter(tf, ef) == [filter |-> tf, event_type_filter |-> ef]
subscribe_with_account_request(af, ef) == [filter |-> af, event_type_filter |-> ef]

\* The request subscribe_with_request builds; commitment defaults to Confirmed.
SubscribeRequest(tf, af, cm) ==
    [transactions |-> tf, accounts |-> af,
     commitment |-> IF cm = None THEN "Confirmed" ELSE cm]

\* lines 161-172: the request a subscribe call sends when it opens the stream
SubscribedRequest(l) ==
    SubscribeRequest(get_subscribe_request_filter(l.tf, l.ef),
                     subscribe_with_account_request(l.af, l.ef), l.cm)

\* AtomicBool::compare_exchange(false, true): succeeds iff the flag is false.
CompareExchangeNoCheck(flag) == TRUE
CompareExchange(flag) == flag = FALSE

\* ef0: the event-type filter the client stored when the call was entered
IdleLocal == [op |-> "none", tf |-> None, af |-> None, ef |-> None, cm |-> None,
              ef0 |-> None, task |-> NoTask, req |-> NoRequest]

RunningTasks == {t \in 1..Len(tasks) : tasks[t].state = "running"}

ClientInit ==
    /\ active_subscription = FALSE
    /\ subscription_handle = NoTask
    /\ handle_lock = Free
    /\ control_tx = NoTask
    /\ current_request = NoRequest
    /\ event_type_filter = None
    /\ tasks = <<>>
    /\ pc = [c \in Callers |-> "idle"]
    /\ local = [c \in Callers |-> IdleLocal]
    /\ result = [c \in Callers |-> "none"]
    /\ ncalls = 0
    /\ acqLog = <<>>
    /\ stopsBegun = 0
    /\ stopsReturned = 0

Return(c, r) ==
    /\ pc' = [pc EXCEPT ![c] = "idle"]
    /\ local' = [local EXCEPT ![c] = IdleLocal]
    /\ result' = [result EXCEPT ![c] = r]

Goto(c, l) ==
    /\ pc' = [pc EXCEPT ![c] = l]
    /\ UNCHANGED <<local, result>>

\* ---- subscribe_events_immediate (lines 133-283) ----

\* line 146: the stored event-type filter is overwritten before the flag is tried
SubscribeBegin(c) ==
    /\ pc[c] = "idle"
    /\ ncalls < MaxCalls
    /\ \E tf \in FilterIds, ef \in EventFilters, cm \in Commitments :
         /\ local' = [local EXCEPT ![c] =
                        [IdleLocal EXCEPT !.op = "subscribe", !.tf = tf, !.af = "F1",
                                          !.ef = ef, !.cm = cm,
                                          !.ef0 = event_type_filter]]
         /\ event_type_filter' = ef
    /\ pc' = [pc EXCEPT ![c] = "s_cas"]
    /\ ncalls' = ncalls + 1
    /\ UNCHANGED <<active_subscription, subscription_handle, handle_lock, control_tx,
                   current_request, tasks, result, acqLog, stopsBegun, stopsReturned>>
    /\ UNCHANGED notClient

\* lines 147-153: CAS on active_subscription; a failed CAS returns the error
SubscribeCas(c) ==
    /\ pc[c] = "s_cas"
    /\ IF CompareExchange(active_subscription)
          THEN /\ active_subscription' = TRUE
               /\ acqLog' = Append(acqLog, [begun |-> stopsBegun,
                                            returned |-> stopsReturned])
               /\ Goto(c, "s_connect")
          ELSE /\ Return(c, "Err_AlreadySubscribed")
               /\ UNCHANGED <<active_subscription, acqLog>>
    /\ UNCHANGED <<subscription_handle, handle_lock, control_tx, current_request,
                   event_type_filter, tasks, ncalls, stopsBegun, stopsReturned>>
    /\ UNCHANGED notClient

\* lines 169-172: subscribe_with_request(...).await? : the upstream stream opens,
\* or the call returns the transport error (the flag stays as the CAS left it)
SubscribeConnect(c) ==
    /\ pc[c] = "s_connect"
    /\ \/ Goto(c, "s_setreq")
       \/ Return(c, "Err_Transport")
    /\ UNCHANGED <<active_subscription, subscription_handle, handle_lock, control_tx,
                   current_request, event_type_filter, tasks, ncalls, acqLog,
                   stopsBegun, stopsReturned>>
    /\ UNCHANGED notClient

\* line 176
SubscribeSetRequest(c) ==
    /\ pc[c] = "s_setreq"
    /\ current_request' = SubscribedRequest(local[c])
    /\ Goto(c, "s_setctl")
    /\ UNCHANGED <<active_subscription, subscription_handle, handle_lock, control_tx,
                   event_type_filter, tasks, ncalls, acqLog, stopsBegun, stopsReturned>>
    /\ UNCHANGED notClient

\* lines 177-178: the control channel is created and its sender stored; the task
\* that will own the receiver and the write half is not spawned yet ("created")
SubscribeSetControl(c) ==
    /\ pc[c] = "s_setctl"
    /\ Len(tasks) < MaxTasks
    /\ tasks' = Append(tasks, [state |-> "created", chan |-> <<>>,
                               upstream |-> SubscribedRequest(local[c])])
    /\ control_tx' = Len(tasks) + 1
    /\ pc' = [pc EXCEPT ![c] = "s_spawn"]
    /\ local' = [local EXCEPT ![c].task = Len(tasks) + 1]
    /\ UNCHANGED <<active_subscription, subscription_handle, handle_lock, current_request,
                   event_type_filter, result, ncalls, acqLog, stopsBegun, stopsReturned>>
    /\ UNCHANGED notClient

\* line 183: tokio::spawn of the stream task
SubscribeSpawn(c) ==
    /\ pc[c] = "s_spawn"
    /\ tasks' = [tasks EXCEPT ![local[c].task].state = "running"]
    /\ Goto(c, "s_store")
    /\ UNCHANGED <<active_subscription, subscription_handle, handle_lock, control_tx,
                   current_request, event_type_filter, ncalls, acqLog, stopsBegun,
                   stopsReturned>>
    /\ UNCHANGED notClient

\* lines 278-282: the handle is stored under the subscription_handle mutex; a
\* handle it replaces is dropped, which detaches its task
SubscribeStore(c) ==
    /\ pc[c] = "s_store"
    /\ handle_lock = Free
    /\ subscription_handle' = local[c].task
    /\ Return(c, "Ok")
    /\ UNCHANGED <<active_subscription, handle_lock, control_tx, current_request,
                   event_type_filter, tasks, ncalls, acqLog, stopsBegun, stopsReturned>>
    /\ UNCHANGED notClient

\* ---- stop (lines 110-118) ----

\* SubscriptionHandle::stop aborts the stream task; a task that already left its
\* loop stays as it is
AbortTask(ts, h) ==
    IF h # NoTask /\ ts[h].state \in {"created", "running"}
       THEN [ts EXCEPT ![h].state = "aborted"]
       ELSE ts

StopBegin(c) ==
    /\ pc[c] = "idle"
    /\ ncalls < MaxCalls
    /\ ncalls' = ncalls + 1
    /\ stopsBegun' = stopsBegun + 1
    /\ pc' = [pc EXCEPT ![c] = "t_lock"]
    /\ local' = [local EXCEPT ![c] = [IdleLocal EXCEPT !.op = "stop"]]
    /\ UNCHANGED <<active_subscription, subscription_handle, handle_lock, control_tx,
                   current_request, event_type_filter, tasks, result, acqLog,
                   stopsReturned>>
    /\ UNCHANGED notClient

\* lines 111-114: the guard is held until the function returns
StopTake(c) ==
    /\ pc[c] = "t_lock"
    /\ handle_lock = Free
    /\ handle_lock' = c
    /\ tasks' = AbortTask(tasks, subscription_handle)
    /\ subscription_handle' = NoTask
    /\ Goto(c, "t_ctl")
    /\ UNCHANGED <<active_subscription, control_tx, current_request, event_type_filter,
                   ncalls, acqLog, stopsBegun, stopsReturned>>
    /\ UNCHANGED notClient

\* line 115
StopControl(c) ==
    /\ pc[c] = "t_ctl"
    /\ control_tx' = NoTask
    /\ Goto(c, "t_req")
    /\ UNCHANGED <<active_subscription, subscription_handle, handle_lock, current_request,
                   event_type_filter, tasks, ncalls, acqLog, stopsBegun, stopsReturned>>
    /\ UNCHANGED notClient

\* line 116
StopRequest(c) ==
    /\ pc[c] = "t_req"
    /\ current_request' = NoRequest
    /\ Goto(c, "t_flag")
    /\ UNCHANGED <<active_subscription, subscription_handle, handle_lock, control_tx,
                   event_type_filter, tasks, ncalls, acqLog, stopsBegun, stopsReturned>>
    /\ UNCHANGED notClient

\* The flag is left as it is
StoreNothing(flag) == flag

\* line 117: AtomicBool::store(false)
StoreFalse(flag) == FALSE

\* lines 117-118: the flag is released, the guard dropped
StopFlag(c) ==
    /\ pc[c] = "t_flag"
    /\ active_subscription' = StoreFalse(active_subscription)
    /\ handle_lock' = Free
    /\ stopsReturned' = stopsReturned + 1
    /\ Return(c, "Ok")
    /\ UNCHANGED <<subscription_handle, control_tx, current_request, event_type_filter,
                   tasks, ncalls, acqLog, stopsBegun>>
    /\ UNCHANGED notClient

\* ---- update_subscription (lines 293-343) ----

UpdateBegin(c) ==
    /\ pc[c] = "idle"
    /\ ncalls < MaxCalls
    /\ ncalls' = ncalls + 1
    /\ \E tf \in FilterIds, af \in FilterIds :
         local' = [local EXCEPT ![c] = [IdleLocal EXCEPT !.op = "update", !.tf = tf,
                                                         !.af = af]]
    /\ pc' = [pc EXCEPT ![c] = "u_ctl"]
    /\ UNCHANGED <<active_subscription, subscription_handle, handle_lock, control_tx,
                   current_request, event_type_filter, tasks, result, acqLog,
                   stopsBegun, stopsReturned>>
    /\ UNCHANGED notClient

\* The flag is not looked at
NoActiveSubscriptionBySender(flag, sender) == sender = NoTask

\* lines 301-308: the two tests that end the call with "No active subscription"
NoActiveSubscription(flag, sender) == ~flag \/ sender = NoTask

\* lines 298-309: under the control_tx lock, the flag is loaded and the sender cloned
UpdateControl(c) ==
    /\ pc[c] = "u_ctl"
    /\ IF NoActiveSubscription(active_subscription, control_tx)
          THEN Return(c, "Err_NoActiveSubscription")
          ELSE /\ local' = [local EXCEPT ![c].task = control_tx]
               /\ pc' = [pc EXCEPT ![c] = "u_req"]
               /\ UNCHANGED result
    /\ UNCHANGED <<active_subscription, subscription_handle, handle_lock, control_tx,
                   current_request, event_type_filter, tasks, ncalls, acqLog,
                   stopsBegun, stopsReturned>>
    /\ UNCHANGED notClient

\* lines 311-333: the current request is cloned and its two filter fields replaced
UpdateBuildRequest(c) ==
    /\ pc[c] = "u_req"
    /\ IF current_request = NoRequest
          THEN Return(c, "Err_NoActiveSubscription")
          ELSE /\ local' = [local EXCEPT ![c].req =
                              [current_request EXCEPT
                                 !.transactions =
                                    get_subscribe_request_filter(local[c].tf,
                                                                 event_type_filter),
                                 !.accounts =
                                    subscribe_with_account_request(local[c].af,
                                                                   event_type_filter)]]
               /\ pc' = [pc EXCEPT ![c] = "u_send"]
               /\ UNCHANGED result
    /\ UNCHANGED <<active_subscription, subscription_handle, handle_lock, control_tx,
                   current_request, event_type_filter, tasks, ncalls, acqLog,
                   stopsBegun, stopsReturned>>
    /\ UNCHANGED notClient

\* lines 335-338: send on the control channel; it fails once the receiver is gone
\* and waits while the channel is full
UpdateSend(c) ==
    /\ pc[c] = "u_send"
    /\ LET t == local[c].task IN
       IF tasks[t].state \in {"aborted", "exited"}
          THEN /\ Return(c, "Err_SendUpdate")
               /\ UNCHANGED tasks
          ELSE /\ Len(tasks[t].chan) < MaxChan
               /\ tasks' = [tasks EXCEPT ![t].chan = Append(@, local[c].req)]
               /\ Goto(c, "u_setreq")
    /\ UNCHANGED <<active_subscription, subscription_handle, handle_lock, control_tx,
                   current_request, event_type_filter, ncalls, acqLog, stopsBegun,
                   stopsReturned>>
    /\ UNCHANGED notClient

\* line 340
UpdateSetRequest(c) ==
    /\ pc[c] = "u_setreq"
    /\ current_request' = local[c].req
    /\ Return(c, "Ok")
    /\ UNCHANGED <<active_subscription, subscription_handle, handle_lock, control_tx,
                   event_type_filter, tasks, ncalls, acqLog, stopsBegun, stopsReturned>>
    /\ UNCHANGED notClient

\* ---- the stream task (lines 183-275) ----

\* The request the write half of task t was last given, or will be given last
\* once the control channel is drained
LastSent(ts, t) ==
    IF ts[t].chan # <<>> THEN ts[t].chan[Len(ts[t].chan)] ELSE ts[t].upstream

\* lines 267-272: a control message is written to the upstream write half
TaskControl(t) ==
    /\ tasks[t].state = "running"
    /\ tasks[t].chan # <<>>
    /\ tasks' = [tasks EXCEPT ![t].upstream = Head(tasks[t].chan),
                              ![t].chan = Tail(tasks[t].chan)]
    /\ UNCHANGED <<active_subscription, subscription_handle, handle_lock, control_tx,
                   current_request, event_type_filter, pc, local, result, ncalls,
                   acqLog, stopsBegun, stopsReturned>>
    /\ UNCHANGED notClient

\* lines 260-264: an error frame or the end of the stream leaves the loop
TaskStreamEnd(t) ==
    /\ tasks[t].state = "running"
    /\ tasks' = [tasks EXCEPT ![t].state = "exited"]
    /\ UNCHANGED <<active_subscription, subscription_handle, handle_lock, control_tx,
                   current_request, event_type_filter, pc, local, result, ncalls,
                   acqLog, stopsBegun, stopsReturned>>
    /\ UNCHANGED notClient

ClientNext ==
    \/ \E c \in Callers : SubscribeBegin(c)
    \/ \E c \in Callers : SubscribeCas(c)
    \/ \E c \in Callers : SubscribeConnect(c)
    \/ \E c \in Callers : SubscribeSetRequest(c)
    \/ \E c \in Callers : SubscribeSetControl(c)
    \/ \E c \in Callers : SubscribeSpawn(c)
    \/ \E c \in Callers : SubscribeStore(c)
    \/ \E c \in Callers : StopBegin(c)
    \/ \E c \in Callers : StopTake(c)
    \/ \E c \in Callers : StopControl(c)
    \/ \E c \in Callers : StopRequest(c)
    \/ \E c \in Callers : StopFlag(c)
    \/ \E c \in Callers : UpdateBegin(c)
    \/ \E c \in Callers : UpdateControl(c)
    \/ \E c \in Callers : UpdateBuildRequest(c)
    \/ \E c \in Callers : UpdateSend(c)
    \/ \E c \in Callers : UpdateSetRequest(c)
    \/ \E t \in 1..Len(tasks) : TaskControl(t)
    \/ \E t \in 1..Len(tasks) : TaskStreamEnd(t)

-----------------------------------------------------------------------------
(* Metrics: streaming/common/metrics.rs, common/event_processor.rs *)

MetricClients == {"k1", "k2"}
MetricKinds == {"Transaction", "Account"}      \* EventType (metrics.rs:7-11)
NoFrame == [kind |-> "None", emitted |-> 0]

NoCounts == [process_count |-> 0, events_processed |-> 0]

\* The statics of metrics.rs:285-293 as the process starts, no client created
MetricsIdle ==
    /\ metrics_enabled = TRUE
    /\ background_task_started = FALSE
    /\ event_metrics = [k \in MetricKinds |-> NoCounts]
    /\ client_config = [c \in MetricClients |-> <<>>]
    /\ frame_pc = [c \in MetricClients |-> NoFrame]
    /\ frames_of = [c \in MetricClients |-> 0]

\* metrics.rs:332-335
is_enabled == metrics_enabled

\* metrics.rs:337-343: record_process
record_process(metrics, event_type) ==
    IF is_enabled
       THEN [metrics EXCEPT ![event_type].process_count = @ + 1]
       ELSE metrics

\* metrics.rs:345-362: record_events
record_events(metrics, event_type, count) ==
    IF ~is_enabled THEN metrics
    ELSE [metrics EXCEPT ![event_type].events_processed = @ + count]

\* yellowstone_grpc.rs:61-82 with metrics.rs:306-330: new_with_config calls
\* MetricsManager::init(config.enable_metrics), which stores the flag of the
\* client being created into the static and starts the window task once
NewWithConfig(c, enable_metrics) ==
    /\ client_config[c] = <<>>
    /\ client_config' = [client_config EXCEPT ![c] = <<enable_metrics>>]
    /\ metrics_enabled' = enable_metrics
    /\ background_task_started' = (background_task_started \/ enable_metrics)
    /\ UNCHANGED <<event_metrics, frame_pc, frames_of>>
    /\ UNCHANGED notMetrics

\* event_processor.rs:46-48, 62-63: the task of client c takes a frame and counts it
ProcessFrame(c, kind) ==
    /\ client_config[c] # <<>>
    /\ frame_pc[c] = NoFrame
    /\ frames_of[c] < MaxMetricFrames
    /\ frames_of' = [frames_of EXCEPT ![c] = @ + 1]
    /\ frame_pc' = [frame_pc EXCEPT ![c] = [kind |-> kind, emitted |-> 0]]
    /\ event_metrics' = record_process(event_metrics, kind)
    /\ UNCHANGED <<metrics_enabled, background_task_started, client_config>>
    /\ UNCHANGED notMetrics

\* event_processor.rs:17-36, 56-60: an event of the frame goes to the callback and
\* is counted; an account frame yields at most one event
EmitEvent(c) ==
    /\ frame_pc[c] # NoFrame
    /\ frame_pc[c].emitted < (IF frame_pc[c].kind = "Account" THEN 1 ELSE MaxFrameEvents)
    /\ frame_pc' = [frame_pc EXCEPT ![c].emitted = @ + 1]
    /\ event_metrics' = record_events(event_metrics, frame_pc[c].kind, 1)
    /\ UNCHANGED <<metrics_enabled, background_task_started, client_config, frames_of>>
    /\ UNCHANGED notMetrics

\* The frame has been processed
FrameDone(c) ==
    /\ frame_pc[c] # NoFrame
    /\ frame_pc' = [frame_pc EXCEPT ![c] = NoFrame]
    /\ UNCHANGED <<metrics_enabled, background_task_started, event_metrics, client_config,
                   frames_of>>
    /\ UNCHANGED notMetrics

MetricsNext ==
    \/ \E c \in MetricClients, enable_metrics \in BOOLEAN : NewWithConfig(c, enable_metrics)
    \/ \E c \in MetricClients, kind \in MetricKinds : ProcessFrame(c, kind)
    \/ \E c \in MetricClients : EmitEvent(c)
    \/ \E c \in MetricClients : FrameDone(c)

-----------------------------------------------------------------------------
(* Per-signature registry: streaming/event_parser/core/global_state.rs *)

\* The two capacity constants, scaled down (1000 and 100 in the source) so that
\* the registry fills within the model; the batch stays smaller than the bound
\* and no smaller than the number of threads.
MAX_SIGNATURES == 3
CLEANUP_BATCH_SIZE == 2

RThreads == {"r1", "r2"}
Sigs == 1..NumSigs
Addrs == {"a1"}

\* SignatureAddresses::default()
EmptyAddresses == [dev_addresses |-> {}, bonk_dev_addresses |-> {}]

\* AtomicUsize::fetch_sub(1): wraps below zero (usize::MAX, here the largest
\* value of the model's integers)
USizeMax == 2 ^ 31 - 1
FetchSub(n) == IF n = 0 THEN USizeMax ELSE n - 1

Min(S) == CHOOSE x \in S : \A y \in S : x <= y

\* trade: what the trade event of the thread's transaction was flagged, once it
\* has been processed
RIdle == [sig |-> 0, addr |-> None, kind |-> None, gen |-> 0, to_remove |-> {},
          trade |-> "none"]

InEviction(t) == rpc[t] \in {"m_collect", "m_remove", "m_sub"}

RegistryInit ==
    /\ signature_data = <<>>
    /\ signature_count = 0
    /\ generation = 0
    /\ rpc = [t \in RThreads |-> "idle"]
    /\ rlocal = [t \in RThreads |-> RIdle]
    /\ nadds = 0

\* The signature of the next transaction a thread parses: one that is not in the
\* registry and that no other thread is parsing (signatures are interchangeable,
\* the least such one stands for all).
FreshSigs == Sigs \ (DOMAIN signature_data \cup {rlocal[t].sig : t \in RThreads})
NextSigs(t) ==
    (IF rlocal[t].sig = 0 THEN {} ELSE {rlocal[t].sig})
      \cup (IF FreshSigs = {} THEN {} ELSE {Min(FreshSigs)})

\* The function a thread calls: r1 parses PumpFun creations (add_dev_address), r2
\* Bonk pool creations (add_bonk_dev_address).
RKind(t) == IF t = "r1" THEN "dev" ELSE "bonk"

\* add_dev_address / add_bonk_dev_address are entered (lines 74, 91) for the
\* transaction the thread is parsing, or for its next transaction
RegAddBegin(t) ==
    /\ rpc[t] = "idle"
    /\ nadds < MaxAdds
    /\ nadds' = nadds + 1
    /\ \E sig \in NextSigs(t), a \in Addrs :
         rlocal' = [rlocal EXCEPT ![t] =
                      [RIdle EXCEPT !.sig = sig, !.addr = a, !.kind = RKind(t)]]
    /\ rpc' = [rpc EXCEPT ![t] = "m_count"]
    /\ UNCHANGED <<signature_data, signature_count, generation>>
    /\ UNCHANGED notRegistry

\* maybe_cleanup, lines 41-44
RegLoadCount(t) ==
    /\ rpc[t] = "m_count"
    /\ rpc' = [rpc EXCEPT ![t] = IF signature_count <= MAX_SIGNATURES
                                    THEN "insert" ELSE "m_gen"]
    /\ UNCHANGED <<signature_data, signature_count, generation, rlocal, nadds>>
    /\ UNCHANGED notRegistry

\* line 47
RegLoadGen(t) ==
    /\ rpc[t] = "m_gen"
    /\ rlocal' = [rlocal EXCEPT ![t].gen = generation]
    /\ rpc' = [rpc EXCEPT ![t] = "m_cas"]
    /\ UNCHANGED <<signature_data, signature_count, generation, nadds>>
    /\ UNCHANGED notRegistry

\* lines 48-54: compare_exchange_weak(gen, gen + 1); it fails when the counter has
\* moved, and may fail spuriously
RegCas(t) ==
    /\ rpc[t] = "m_cas"
    /\ \/ /\ generation = rlocal[t].gen
          /\ generation' = generation + 1
          /\ rpc' = [rpc EXCEPT ![t] = "m_collect"]
       \/ /\ rpc' = [rpc EXCEPT ![t] = "insert"]
          /\ UNCHANGED generation
    /\ UNCHANGED <<signature_data, signature_count, rlocal, nadds>>
    /\ UNCHANGED notRegistry

\* The order in which the map's iterator yields the keys present: the hash order,
\* fixed for one process; the signatures are numbered in that order.
RECURSIVE FirstKeys(_, _)
FirstKeys(keys, n) ==
    IF n = 0 \/ keys = {} THEN {}
    ELSE {Min(keys)} \cup FirstKeys(keys \ {Min(keys)}, n - 1)

\* lines 57-64: the keys are collected; nothing is done unless there are more than
\* MAX_SIGNATURES; the first CLEANUP_BATCH_SIZE keys in map order are kept
RegCollect(t) ==
    /\ rpc[t] = "m_collect"
    /\ IF Cardinality(DOMAIN signature_data) <= MAX_SIGNATURES
          THEN /\ rpc' = [rpc EXCEPT ![t] = "insert"]
               /\ UNCHANGED rlocal
          ELSE /\ rlocal' = [rlocal EXCEPT ![t].to_remove =
                                FirstKeys(DOMAIN signature_data, CLEANUP_BATCH_SIZE)]
               /\ rpc' = [rpc EXCEPT ![t] = "m_remove"]
    /\ UNCHANGED <<signature_data, signature_count, generation, nadds>>
    /\ UNCHANGED notRegistry

\* line 68: remove(&signature), whether or not the key is still there
RegRemove(t) ==
    /\ rpc[t] = "m_remove"
    /\ IF rlocal[t].to_remove = {}
          THEN /\ rpc' = [rpc EXCEPT ![t] = "insert"]
               /\ UNCHANGED signature_data
          ELSE /\ signature_data' =
                    [s \in DOMAIN signature_data \ {Min(rlocal[t].to_remove)} |->
                        signature_data[s]]
               /\ rpc' = [rpc EXCEPT ![t] = "m_sub"]
    /\ UNCHANGED <<signature_count, generation, rlocal, nadds>>
    /\ UNCHANGED notRegistry

\* line 69: the counter is decremented for every key of the batch
RegFetchSub(t) ==
    /\ rpc[t] = "m_sub"
    /\ signature_count' = FetchSub(signature_count)
    /\ rlocal' = [rlocal EXCEPT ![t].to_remove = @ \ {Min(@)}]
    /\ rpc' = [rpc EXCEPT ![t] = "m_remove"]
    /\ UNCHANGED <<signature_data, generation, nadds>>
    /\ UNCHANGED notRegistry

\* lines 77-87 and 94-104: entry().and_modify().or_insert_with(), one map operation
AddAddress(entry, kind, a) ==
    IF kind = "dev"
       THEN [entry EXCEPT !.dev_addresses = @ \cup {a}]
       ELSE [entry EXCEPT !.bonk_dev_addresses = @ \cup {a}]

RegInsert(t) ==
    /\ rpc[t] = "insert"
    /\ LET sig == rlocal[t].sig IN
       IF sig \in DOMAIN signature_data
          THEN /\ signature_data' = [signature_data EXCEPT ![sig] =
                                        AddAddress(@, rlocal[t].kind, rlocal[t].addr)]
               /\ UNCHANGED signature_count
          ELSE /\ signature_data' =
                    [s \in DOMAIN signature_data \cup {sig} |->
                        IF s = sig
                           THEN AddAddress(EmptyAddresses, rlocal[t].kind, rlocal[t].addr)
                           ELSE signature_data[s]]
               /\ signature_count' = signature_count + 1
    /\ rpc' = [rpc EXCEPT ![t] = "idle"]
    /\ rlocal' = [rlocal EXCEPT ![t] = [RIdle EXCEPT !.sig = rlocal[t].sig]]
    /\ UNCHANGED <<generation, nadds>>
    /\ UNCHANGED notRegistry

\* global_state.rs:108-112
is_dev_address_in_signature(signature, address) ==
    IF signature \in DOMAIN signature_data
       THEN address \in signature_data[signature].dev_addresses
       ELSE FALSE

\* global_state.rs:115-124
is_bonk_dev_address_in_signature(signature, address) ==
    IF signature \in DOMAIN signature_data
       THEN address \in signature_data[signature].bonk_dev_addresses
       ELSE FALSE

\* event_parser.rs:874-877 (PumpFunTradeEvent) and 926-929 (BonkTradeEvent): the
\* flag of a trade by `address` in the transaction `signature`
is_dev_create_token_trade(kind, signature, address) ==
    IF kind = "dev"
       THEN is_dev_address_in_signature(signature, address)
       ELSE is_bonk_dev_address_in_signature(signature, address)

\* process_event on the trade event that follows the creation in the thread's
\* transaction: the trader is the creator
RegTrade(t) ==
    /\ rpc[t] = "idle"
    /\ rlocal[t].sig # 0
    /\ rlocal[t].trade = "none"
    /\ \E a \in Addrs :
         rlocal' = [rlocal EXCEPT ![t].trade =
                      IF is_dev_create_token_trade(RKind(t), rlocal[t].sig, a)
                         THEN "flagged" ELSE "unflagged"]
    /\ UNCHANGED <<signature_data, signature_count, generation, rpc, nadds>>
    /\ UNCHANGED notRegistry

RegistryNext ==
    \/ \E t \in RThreads : RegTrade(t)
    \/ \E t \in RThreads : RegAddBegin(t)
    \/ \E t \in RThreads : RegLoadCount(t)
    \/ \E t \in RThreads : RegLoadGen(t)
    \/ \E t \in RThreads : RegCas(t)
    \/ \E t \in RThreads : RegCollect(t)
    \/ \E t \in RThreads : RegRemove(t)
    \/ \E t \in RThreads : RegFetchSub(t)
    \/ \E t \in RThreads : RegInsert(t)

-----------------------------------------------------------------------------
(* Instructions and events: event_parser/protocols/pumpswap, core/dispatcher.rs *)

DefaultPubkey == "default"          \* Pubkey::default()
NoEvent == [kind |-> "None"]        \* Option::None of a parser
NoLog == [timestamp |-> 0, amount |-> 0, limit |-> 0, quote_amount |-> 0,
          pool |-> DefaultPubkey, user |-> DefaultPubkey, valid |-> FALSE]
NoAccounts == [len |-> 0, pool |-> DefaultPubkey, user |-> DefaultPubkey,
               base_mint |-> DefaultPubkey, quote_mint |-> DefaultPubkey]

\* A compiled instruction: its program, its data (discriminator, arguments or
\* event-log payload) and the accounts it names, by position (len of them).
\* An argument is a u64: data of n arguments is 8 * n bytes long.
Instruction(program, disc, args, accts, log) ==
    [program_id |-> program,
     data |-> [disc |-> disc, args |-> args, log |-> log],
     accounts |-> accts]

NoInner == 0 - 1                     \* inner_index: None (an outer instruction)

\* Option::unwrap_or
unwrap_or(option, default) == IF option = <<>> THEN default ELSE option[1]

\* The metadata of every event of an outer instruction
EventMetadataOfOuter(program, outer_index, inner_index) ==
    [signature |-> tx_signature, slot |-> unwrap_or(tx_slot, 0),
     protocol |-> "Default", event_type |-> "Default", program_id |-> program,
     outer_index |-> outer_index, inner_index |-> NoInner, is_arb_leg |-> FALSE]

\* EventMetadata::new (types.rs:372-401) as event_parser.rs:423-435 calls it, with
\* the transaction's signature and slot.unwrap_or(0) (lines 273-274, 326-327)
EventMetadata(program, outer_index, inner_index) ==
    [signature |-> tx_signature, slot |-> unwrap_or(tx_slot, 0),
     protocol |-> "Default", event_type |-> "Default", program_id |-> program,
     outer_index |-> outer_index, inner_index |-> inner_index, is_arb_leg |-> FALSE]

\* The buy is decoded whatever the length of its data and of its account list
parse_buy_instruction_unchecked(data, accounts, metadata) ==
    [kind |-> "PumpSwapBuyEvent",
     metadata |-> [metadata EXCEPT !.event_type = "PumpSwapBuy"],
     timestamp |-> 0,
     base_amount_out |-> 0,
     max_quote_amount_in |-> 0,
     quote_amount_in |-> 0,
     pool |-> accounts.pool, user |-> accounts.user,
     base_mint |-> accounts.base_mint, quote_mint |-> accounts.quote_mint]

\* pumpswap/parser.rs:128-162
parse_buy_instruction(data, accounts, metadata) ==
    IF Len(data.args) < 2 \/ accounts.len < 13 THEN NoEvent
    ELSE [kind |-> "PumpSwapBuyEvent",
          metadata |-> [metadata EXCEPT !.event_type = "PumpSwapBuy"],
          timestamp |-> 0,
          base_amount_out |-> data.args[1],
          max_quote_amount_in |-> data.args[2],
          quote_amount_in |-> 0,
          pool |-> accounts.pool, user |-> accounts.user,
          base_mint |-> accounts.base_mint, quote_mint |-> accounts.quote_mint]

\* pumpswap/parser.rs:165-199
parse_sell_instruction(data, accounts, metadata) ==
    IF Len(data.args) < 2 \/ accounts.len < 13 THEN NoEvent
    ELSE [kind |-> "PumpSwapSellEvent",
          metadata |-> [metadata EXCEPT !.event_type = "PumpSwapSell"],
          timestamp |-> 0,
          base_amount_in |-> data.args[1],
          min_quote_amount_out |-> data.args[2],
          quote_amount_out |-> 0,
          pool |-> accounts.pool, user |-> accounts.user,
          base_mint |-> accounts.base_mint, quote_mint |-> accounts.quote_mint]

\* pumpswap/parser.rs:243-..: a PumpSwap event that is not a swap
parse_deposit_instruction(data, accounts, metadata) ==
    IF Len(data.args) < 3 \/ accounts.len < 11 THEN NoEvent
    ELSE [kind |-> "PumpSwapDepositEvent",
          metadata |-> [metadata EXCEPT !.event_type = "PumpSwapDeposit"],
          pool |-> accounts.pool, user |-> accounts.user]

\* pumpswap/parser.rs:21-35
parse_pumpswap_instruction_data(data, accounts, metadata) ==
    CASE data.disc = "BUY_IX" -> parse_buy_instruction(data, accounts, metadata)
      [] data.disc = "SELL_IX" -> parse_sell_instruction(data, accounts, metadata)
      [] data.disc = "DEPOSIT_IX" -> parse_deposit_instruction(data, accounts, metadata)
      [] OTHER -> NoEvent

\* pumpswap/parser.rs:77-84 with events.rs:61-66: the log is decoded, the fields
\* borsh skips stay at their defaults, the metadata is the one passed in
parse_buy_inner_instruction(data, metadata) ==
    IF ~data.log.valid THEN NoEvent
    ELSE [kind |-> "PumpSwapBuyEvent",
          metadata |-> metadata,
          timestamp |-> data.log.timestamp,
          base_amount_out |-> data.log.amount,
          max_quote_amount_in |-> data.log.limit,
          quote_amount_in |-> data.log.quote_amount,
          pool |-> data.log.pool, user |-> data.log.user,
          base_mint |-> DefaultPubkey, quote_mint |-> DefaultPubkey]

\* pumpswap/parser.rs:87-94
parse_sell_inner_instruction(data, metadata) ==
    IF ~data.log.valid THEN NoEvent
    ELSE [kind |-> "PumpSwapSellEvent",
          metadata |-> metadata,
          timestamp |-> data.log.timestamp,
          base_amount_in |-> data.log.amount,
          min_quote_amount_out |-> data.log.limit,
          quote_amount_out |-> data.log.quote_amount,
          pool |-> data.log.pool, user |-> data.log.user,
          base_mint |-> DefaultPubkey, quote_mint |-> DefaultPubkey]

\* pumpswap/parser.rs:40-53
parse_pumpswap_inner_instruction_data(data, metadata) ==
    CASE data.disc = "BUY_EVENT" -> parse_buy_inner_instruction(data, metadata)
      [] data.disc = "SELL_EVENT" -> parse_sell_inner_instruction(data, metadata)
      [] OTHER -> NoEvent

\* pumpfun/parser.rs:315-353: the event is read from the accounts alone; of its
\* fields the ones the merge overwrites are kept
parse_migrate_instruction(data, accounts, metadata) ==
    IF accounts.len < 24 THEN NoEvent
    ELSE [kind |-> "PumpFunMigrateEvent",
          metadata |-> [metadata EXCEPT !.event_type = "PumpFunMigrate"],
          timestamp |-> 0,
          mint_amount |-> 0,
          pool |-> accounts.pool, user |-> accounts.user]

\* pumpfun/parser.rs:19-36 (the create, buy and sell instructions of PumpFun are
\* not modelled here)
parse_pumpfun_instruction_data(data, accounts, metadata) ==
    CASE data.disc = "MIGRATE_IX" -> parse_migrate_instruction(data, accounts, metadata)
      [] OTHER -> NoEvent

\* pumpfun/parser.rs:79-86
parse_migrate_inner_instruction(data, metadata) ==
    IF ~data.log.valid THEN NoEvent
    ELSE [kind |-> "PumpFunMigrateEvent",
          metadata |-> [metadata EXCEPT !.event_type = "PumpFunMigrate"],
          timestamp |-> data.log.timestamp,
          mint_amount |-> data.log.amount,
          pool |-> data.log.pool, user |-> data.log.user]

\* pumpfun/parser.rs:102-110: the event type of the metadata is left as passed in
parse_trade_inner_instruction(data, metadata) ==
    IF ~data.log.valid THEN NoEvent
    ELSE [kind |-> "PumpFunTradeEvent",
          metadata |-> metadata,
          timestamp |-> data.log.timestamp,
          token_amount |-> data.log.amount,
          sol_amount |-> data.log.quote_amount,
          user |-> data.log.user]

\* pumpfun/parser.rs:40-53 (the create-token log is not modelled here)
parse_pumpfun_inner_instruction_data(data, metadata) ==
    CASE data.disc = "TRADE_EVENT" -> parse_trade_inner_instruction(data, metadata)
      [] data.disc = "COMPLETE_PUMP_AMM_MIGRATION_EVENT" ->
           parse_migrate_inner_instruction(data, metadata)
      [] OTHER -> NoEvent

\* raydium_clmm/parser.rs:329-364: 33 bytes of arguments (five u64 words here)
\* and ten accounts; the fields the swap log carries keep their defaults
parse_swap_instruction(data, accounts, metadata) ==
    IF Len(data.args) * 8 < 33 \/ accounts.len < 10 THEN NoEvent
    ELSE [kind |-> "RaydiumClmmSwapEvent",
          metadata |-> [metadata EXCEPT !.event_type = "RaydiumClmmSwap"],
          amount |-> data.args[1],
          other_amount_threshold |-> data.args[2],
          pool_state |-> accounts.pool,
          amount_0 |-> 0, amount_1 |-> 0, sqrt_price_x64 |-> 0]

\* raydium_clmm/parser.rs:366-405
parse_swap_v2_instruction(data, accounts, metadata) ==
    IF Len(data.args) * 8 < 33 \/ accounts.len < 13 THEN NoEvent
    ELSE [kind |-> "RaydiumClmmSwapV2Event",
          metadata |-> [metadata EXCEPT !.event_type = "RaydiumClmmSwapV2"],
          amount |-> data.args[1],
          other_amount_threshold |-> data.args[2],
          pool_state |-> accounts.pool,
          input_vault_mint |-> accounts.base_mint,
          output_vault_mint |-> accounts.quote_mint,
          amount_0 |-> 0, amount_1 |-> 0, sqrt_price_x64 |-> 0]

\* raydium_clmm/parser.rs:40-67 (the liquidity and position instructions are not
\* among the inputs)
parse_raydium_clmm_instruction_data(data, accounts, metadata) ==
    CASE data.disc = "SWAP" -> parse_swap_instruction(data, accounts, metadata)
      [] data.disc = "SWAP_V2" -> parse_swap_v2_instruction(data, accounts, metadata)
      [] OTHER -> NoEvent

\* raydium_clmm/parser.rs:69-71
is_raydium_clmm_swap_instruction(discriminator) == discriminator \in {"SWAP", "SWAP_V2"}

\* whirlpool/parser.rs:41-43
is_whirlpool_swap_instruction(discriminator) == discriminator \in {"SWAP", "SWAP_V2"}

\* raydium_clmm/parser.rs:410-463: the base64 payloads that decode to a swap
\* event, with what they decode to; <<>> for None
parse_swap_event_from_log(log_data_base64) ==
    CASE log_data_base64 = "d1" ->
           <<[pool_state |-> "P1", amount_0 |-> 700, amount_1 |-> 900, sqrt_price_x64 |-> 42]>>
      [] log_data_base64 = "d2" ->
           <<[pool_state |-> "P2", amount_0 |-> 10, amount_1 |-> 20, sqrt_price_x64 |-> 43]>>
      [] OTHER -> <<>>

\* raydium_clmm/parser.rs:466-479
parse_swap_event_from_program_data(item, expected_pool_state) ==
    IF item.program_id # "RaydiumClmm" THEN <<>>
    ELSE IF parse_swap_event_from_log(item.base64) = <<>> THEN <<>>
    ELSE IF parse_swap_event_from_log(item.base64)[1].pool_state # expected_pool_state THEN <<>>
    ELSE parse_swap_event_from_log(item.base64)

\* dispatcher.rs:202-225: the protocol a program id belongs to
match_protocol_by_program_id(program_id) ==
    IF program_id \in {"PumpFun", "PumpSwap", "RaydiumClmm", "Whirlpool"}
       THEN program_id ELSE None

\* dispatcher.rs:228-230
is_compute_budget_program(program_id) == program_id = "ComputeBudget"

\* dispatcher.rs:42-127: a Whirlpool instruction yields no event (lines 112-115)
dispatch_instruction(protocol, data, accounts, metadata) ==
    CASE protocol = "PumpFun" ->
           parse_pumpfun_instruction_data(data, accounts,
                                          [metadata EXCEPT !.protocol = protocol])
      [] protocol = "PumpSwap" ->
           parse_pumpswap_instruction_data(data, accounts,
                                           [metadata EXCEPT !.protocol = protocol])
      [] protocol = "RaydiumClmm" ->
           parse_raydium_clmm_instruction_data(data, accounts,
                                               [metadata EXCEPT !.protocol = protocol])
      [] OTHER -> NoEvent

\* dispatcher.rs:130-199: Whirlpool has no inner-instruction parser
dispatch_inner_instruction(protocol, data, metadata) ==
    CASE protocol = "PumpFun" -> parse_pumpfun_inner_instruction_data(data, metadata)
      [] protocol = "PumpSwap" -> parse_pumpswap_inner_instruction_data(data, metadata)
      [] OTHER -> NoEvent

-----------------------------------------------------------------------------
(* merge: streaming/event_parser/core/merger_event.rs *)

\* merger_event.rs:59-71 (PumpFunMigrateEvent), 118-145 (PumpSwapBuyEvent) and
\* 178-205 (PumpSwapSellEvent); a pair of different variants is left alone (the
\* `_ => {}` arms)
\* The amount the log reports is added to the one the event holds
merge_adding(e, cpie) ==
    CASE e.kind = "PumpSwapBuyEvent" /\ cpie.kind = "PumpSwapBuyEvent" ->
           [e EXCEPT !.quote_amount_in = e.quote_amount_in + cpie.quote_amount_in]
      [] e.kind = "PumpSwapSellEvent" /\ cpie.kind = "PumpSwapSellEvent" ->
           [e EXCEPT !.quote_amount_out = e.quote_amount_out + cpie.quote_amount_out]
      [] OTHER -> e

\* merger_event.rs:3-466: every arm copies fields of the log event into the
\* instruction event
merge(e, cpie) ==
    CASE e.kind = "PumpFunMigrateEvent" /\ cpie.kind = "PumpFunMigrateEvent" ->
           [e EXCEPT !.timestamp = cpie.timestamp,
                     !.mint_amount = cpie.mint_amount,
                     !.pool = cpie.pool,
                     !.user = cpie.user]
      [] e.kind = "PumpSwapBuyEvent" /\ cpie.kind = "PumpSwapBuyEvent" ->
           [e EXCEPT !.timestamp = cpie.timestamp,
                     !.base_amount_out = cpie.base_amount_out,
                     !.max_quote_amount_in = cpie.max_quote_amount_in,
                     !.quote_amount_in = cpie.quote_amount_in,
                     !.pool = cpie.pool,
                     !.user = cpie.user]
      [] e.kind = "PumpSwapSellEvent" /\ cpie.kind = "PumpSwapSellEvent" ->
           [e EXCEPT !.timestamp = cpie.timestamp,
                     !.base_amount_in = cpie.base_amount_in,
                     !.min_quote_amount_out = cpie.min_quote_amount_out,
                     !.quote_amount_out = cpie.quote_amount_out,
                     !.pool = cpie.pool,
                     !.user = cpie.user]
      [] OTHER -> e

\* Inputs of the merge runs
Amounts == {999, 1000}
Limits == {2000, 2001}
Pools == {"P1", "P2"}

SwapInstructions ==
    {Instruction("PumpSwap", d, <<a, 2000>>,
                 [len |-> 13, pool |-> p, user |-> "U1",
                  base_mint |-> "A", quote_mint |-> "B"],
                 NoLog) :
        d \in {"BUY_IX", "SELL_IX"}, a \in Amounts, p \in Pools}

EventLogs ==
    {Instruction("PumpSwap", d, <<>>, NoAccounts,
                 [timestamp |-> 7, amount |-> a, limit |-> l, quote_amount |-> 1950,
                  pool |-> p, user |-> "U1", valid |-> TRUE]) :
        d \in {"BUY_EVENT", "SELL_EVENT"}, a \in Amounts, l \in Limits, p \in Pools}

MergeIdle ==
    /\ instruction = None
    /\ inner_instruction = None
    /\ instruction_event = NoEvent
    /\ cpi_log_event = NoEvent
    /\ mpc = "idle"

MergeInit ==
    /\ instruction \in SwapInstructions
    /\ inner_instruction \in EventLogs
    /\ instruction_event = NoEvent
    /\ cpi_log_event = NoEvent
    /\ mpc = "start"

\* event_parser.rs:463-473: the outer instruction is parsed
MergeParseInstruction ==
    /\ mpc = "start"
    /\ instruction_event' =
         dispatch_instruction(match_protocol_by_program_id(instruction.program_id),
                              instruction.data, instruction.accounts,
                              EventMetadata(instruction.program_id, 0, NoInner))
    /\ mpc' = "parsed"
    /\ UNCHANGED <<instruction, inner_instruction, cpi_log_event>>
    /\ UNCHANGED notMerge

\* event_parser.rs:497-510: the event log of the inner instruction is decoded
MergeDecodeLog ==
    /\ mpc = "parsed"
    /\ cpi_log_event' =
         dispatch_inner_instruction(match_protocol_by_program_id(instruction.program_id),
                                    inner_instruction.data,
                                    EventMetadata(instruction.program_id, 0, NoInner))
    /\ mpc' = "decoded"
    /\ UNCHANGED <<instruction, inner_instruction, instruction_event>>
    /\ UNCHANGED notMerge

\* event_parser.rs:530-532: merge(&mut event, inner_instruction_event)
MergeApply ==
    /\ mpc = "decoded"
    /\ cpi_log_event # NoEvent
    /\ instruction_event' = merge(instruction_event, cpi_log_event)
    /\ mpc' = "merged"
    /\ UNCHANGED <<instruction, inner_instruction, cpi_log_event>>
    /\ UNCHANGED notMerge

\* merge applied once more to the merged event, with the same log event
MergeReapply ==
    /\ mpc = "merged"
    /\ instruction_event' = merge(instruction_event, cpi_log_event)
    /\ mpc' = "remerged"
    /\ UNCHANGED <<instruction, inner_instruction, cpi_log_event>>
    /\ UNCHANGED notMerge

MergeNext ==
    \/ MergeParseInstruction
    \/ MergeDecodeLog
    \/ MergeApply
    \/ MergeReapply

-----------------------------------------------------------------------------
(* Program-data index: streaming/event_parser/common/program_data_index.rs *)

\* A log line is the sequence of its words (the text between single spaces).
\* The strings Pubkey::from_str accepts, the words that start with "[", and the
\* depths those words hold when one "]" is trimmed and the rest parsed as usize
Pubkeys == {"Whirlpool", "Token", "RaydiumClmm", "PumpSwap", "Router"}
BracketWords == {"[1]", "[2]", "[x]"}
DepthOfWord(word) == CASE word = "[1]" -> <<1>> [] word = "[2]" -> <<2>> [] OTHER -> <<>>

InvokeLine(program, depth) == <<"Program", program, "invoke", depth>>
SuccessLine(program) == <<"Program", program, "success">>
FailedLine(program) == <<"Program", program, "failed:", "custom">>
DataLine(base64) == <<"Program", "data:", base64>>
TextLine(text) == <<"Program", "log:">> \o text

\* log.starts_with("Program ")
StartsWithProgram(log) == Len(log) >= 2 /\ log[1] = "Program"

\* The positions of " invoke [" in the line
InvokeMarks(log) ==
    {i \in 2..(Len(log) - 1) : log[i] = "invoke" /\ log[i + 1] \in BracketWords}

\* program_data_index.rs:44-58: the text before the first " invoke [" must be a
\* Pubkey and the text after it, "]" trimmed, a number (a line with a second
\* " invoke [" is not among the inputs)
parse_invoke_line(log) ==
    IF ~StartsWithProgram(log) \/ InvokeMarks(log) = {} THEN <<>>
    ELSE LET i == CHOOSE m \in InvokeMarks(log) : \A n \in InvokeMarks(log) : m <= n
         IN  IF i # 3 \/ log[2] \notin Pubkeys THEN <<>>
             ELSE IF i + 1 # Len(log) \/ DepthOfWord(log[i + 1]) = <<>> THEN <<>>
             ELSE <<log[2], DepthOfWord(log[i + 1])[1]>>

\* program_data_index.rs:60-62
is_success_or_failed_line(log) ==
    /\ StartsWithProgram(log)
    /\ \E i \in 2..Len(log) : log[i] \in {"success", "failed:"}

\* common/utils.rs (extract_program_data): the payload of a "Program data: " line
extract_program_data(log) ==
    IF Len(log) = 3 /\ log[1] = "Program" /\ log[2] = "data:" THEN <<log[3]>> ELSE <<>>

\* program_data_index.rs:68-85, one iteration: st holds spans, the stack of the
\* positions (0-based) of the open spans, and the positions read without a
\* bounds test as <<position, length>>
ScanLine(st, idx, log) ==
    IF parse_invoke_line(log) # <<>>
       THEN [st EXCEPT
               !.spans = Append(st.spans, [program_id |-> parse_invoke_line(log)[1],
                                           depth |-> parse_invoke_line(log)[2],
                                           start |-> idx, end |-> idx]),
               !.stack = Append(st.stack, Len(st.spans))]
    ELSE IF is_success_or_failed_line(log) /\ st.stack # <<>>
       THEN [st EXCEPT
               !.spans = [n \in 1..Len(st.spans) |->
                             IF n = st.stack[Len(st.stack)] + 1
                                THEN [st.spans[n] EXCEPT !.end = idx] ELSE st.spans[n]],
               !.stack = SubSeq(st.stack, 1, Len(st.stack) - 1),
               !.accesses = st.accesses \cup {<<st.stack[Len(st.stack)], Len(st.spans)>>}]
    ELSE st

\* program_data_index.rs:87-90: the spans still open end on the last line
CloseOpen(st, logs) ==
    [st EXCEPT
       !.spans = [n \in 1..Len(st.spans) |->
                     IF \E k \in 1..Len(st.stack) : st.stack[k] + 1 = n
                        THEN [st.spans[n] EXCEPT
                                !.end = IF Len(logs) = 0 THEN 0 ELSE Len(logs) - 1]
                        ELSE st.spans[n]],
       !.stack = <<>>,
       !.accesses = st.accesses \cup {<<st.stack[k], Len(st.spans)>> : k \in 1..Len(st.stack)}]

NoScan == [spans |-> <<>>, stack |-> <<>>, accesses |-> {}]

RECURSIVE ScanFrom(_, _, _)
ScanFrom(st, idx, logs) ==
    IF idx >= Len(logs) THEN st ELSE ScanFrom(ScanLine(st, idx, logs[idx + 1]), idx + 1, logs)

\* program_data_index.rs:64-93
parse_invocation_spans(logs) == CloseOpen(ScanFrom(NoScan, 0, logs), logs).spans

\* Any span of the same depth or deeper counts as a child
is_within_child_span_or_self(idx, span, spans) ==
    \E c \in 1..Len(spans) :
        /\ spans[c].depth >= span.depth
        /\ spans[c].start >= span.start
        /\ spans[c].end <= span.end
        /\ idx >= spans[c].start
        /\ idx <= spans[c].end

\* program_data_index.rs:95-103
is_within_child_span(idx, span, spans) ==
    \E c \in 1..Len(spans) :
        /\ spans[c].depth > span.depth
        /\ spans[c].start >= span.start
        /\ spans[c].end <= span.end
        /\ idx >= spans[c].start
        /\ idx <= spans[c].end

NoItem == [base64 |-> "", program_id |-> "", depth |-> 0, log_index |-> 0 - 1]

\* The lines find_program_data_in_span may read: program_data_index.rs:110-114
SpanLines(span, logs) ==
    IF Len(logs) = 0 \/ span.start >= Len(logs) THEN {}
    ELSE span.start..(IF span.end < Len(logs) - 1 THEN span.end ELSE Len(logs) - 1)

\* program_data_index.rs:105-128
find_program_data_in_span(span, spans, logs) ==
    LET found == {idx \in SpanLines(span, logs) :
                     /\ ~is_within_child_span(idx, span, spans)
                     /\ extract_program_data(logs[idx + 1]) # <<>>}
    IN  IF found = {} THEN NoItem
        ELSE LET idx == CHOOSE i \in found : \A j \in found : i <= j
             IN  [base64 |-> extract_program_data(logs[idx + 1])[1],
                  program_id |-> span.program_id,
                  depth |-> span.depth,
                  log_index |-> idx]

\* The test of line 142 left out
InBoundsAlways(outer_idx, outer_len) == TRUE

\* program_data_index.rs:142
InBounds(outer_idx, outer_len) == outer_idx < outer_len

\* program_data_index.rs:135-145: the last group of an index in bounds sizes its
\* row. A group is given as its index and the number of its instructions.
AllocIndex(outer_len, inner_instructions) ==
    [outer |-> [i \in 1..outer_len |-> NoItem],
     inner |-> [i \in 1..outer_len |->
                  IF \E g \in 1..Len(inner_instructions) :
                        /\ inner_instructions[g].index = i - 1
                        /\ InBounds(inner_instructions[g].index, outer_len)
                     THEN LET g == CHOOSE h \in 1..Len(inner_instructions) :
                                     /\ inner_instructions[h].index = i - 1
                                     /\ \A k \in (h + 1)..Len(inner_instructions) :
                                           inner_instructions[k].index # i - 1
                          IN  [j \in 1..inner_instructions[g].n |-> NoItem]
                     ELSE <<>>]]

\* The rows line 143 writes, as <<position, length>>
AllocAccesses(outer_len, inner_instructions) ==
    {<<inner_instructions[g].index, outer_len>> :
        g \in {h \in 1..Len(inner_instructions) :
                  InBounds(inner_instructions[h].index, outer_len)}}

\* Every span, whatever its depth
all_spans(spans) == spans

\* program_data_index.rs:152: the spans of depth 1, in the order met
outer_spans(spans) == SelectSeq(spans, LAMBDA span : span.depth = 1)

\* The spans inside the outer span, the outer span among them
spans_within(spans, outer_span) ==
    SelectSeq(spans, LAMBDA span : /\ span.start >= outer_span.start
                                   /\ span.end <= outer_span.end)

\* program_data_index.rs:163-171: the spans of depth 2 or more inside the outer
\* span; sort_by_key(start) is stable and finds them already in start order,
\* each span starting on a line of its own
inner_spans(spans, outer_span) ==
    SelectSeq(spans, LAMBDA span : /\ span.depth >= 2
                                   /\ span.start >= outer_span.start
                                   /\ span.end <= outer_span.end)

\* program_data_index.rs:154-179
FillIndex(alloc, spans, logs) ==
    [outer |-> [i \in 1..Len(alloc.outer) |->
                  IF i <= Len(outer_spans(spans))
                     THEN find_program_data_in_span(outer_spans(spans)[i], spans, logs)
                     ELSE NoItem],
     inner |-> [i \in 1..Len(alloc.inner) |->
                  [j \in 1..Len(alloc.inner[i]) |->
                     IF /\ i <= Len(outer_spans(spans))
                        /\ j <= Len(inner_spans(spans, outer_spans(spans)[i]))
                        THEN find_program_data_in_span(
                                 inner_spans(spans, outer_spans(spans)[i])[j], spans, logs)
                        ELSE NoItem]]]

\* The positions lines 118, 158, 160 and 173-176 read or write
FillAccesses(alloc, spans, logs) ==
    UNION {{<<idx, Len(logs)>> : idx \in SpanLines(spans[n], logs)} : n \in 1..Len(spans)}
      \cup {<<i - 1, Len(alloc.outer)>> :
               i \in {k \in 1..Len(alloc.outer) : k <= Len(outer_spans(spans))}}
      \cup {<<i - 1, Len(alloc.inner)>> :
               i \in {k \in 1..Len(alloc.outer) : k <= Len(outer_spans(spans))}}

\* program_data_index.rs:130-182
build_program_data_index(logs, outer_len, inner_instructions) ==
    IF Len(logs) = 0 \/ outer_len = 0 THEN AllocIndex(outer_len, inner_instructions)
    ELSE FillIndex(AllocIndex(outer_len, inner_instructions),
                   parse_invocation_spans(logs), logs)

\* program_data_index.rs:20-25
get_outer(pdi, outer_index) ==
    IF outer_index < 0 \/ outer_index >= Len(pdi.outer) THEN NoItem
    ELSE pdi.outer[outer_index + 1]

\* program_data_index.rs:27-33
get_inner(pdi, outer_index, inner_index) ==
    IF outer_index < 0 \/ inner_index < 0 \/ outer_index >= Len(pdi.inner) THEN NoItem
    ELSE IF inner_index >= Len(pdi.inner[outer_index + 1]) THEN NoItem
    ELSE pdi.inner[outer_index + 1][inner_index + 1]

-----------------------------------------------------------------------------
(* Transaction walker: streaming/event_parser/core/event_parser.rs *)

\* common_event_parser.rs (CommonEventParser::parse_compute_budget_instruction):
\* the two compute-budget operations decode, anything else does not
dispatch_compute_budget_instruction(data, metadata) ==
    IF data.disc \in {"SetComputeUnitLimit", "SetComputeUnitPrice"}
       THEN [kind |-> data.disc,
             metadata |-> [metadata EXCEPT !.protocol = "Common", !.event_type = data.disc]]
       ELSE NoEvent

\* Only the programs of the protocols in the allow-list are handled
should_handle_listed(protos, filter, program_id) ==
    match_protocol_by_program_id(program_id) \in protos

\* event_parser.rs:699-712: the event-type filter is not consulted
should_handle(protos, filter, program_id) ==
    IF match_protocol_by_program_id(program_id) # None
       THEN match_protocol_by_program_id(program_id) \in protos
       ELSE is_compute_budget_program(program_id)

\* The last instruction of the group that decodes, instead of the first
RECURSIVE LastInnerEvent(_, _, _, _)
LastInnerEvent(protocol, instructions, start, metadata) ==
    IF start > Len(instructions) THEN 0
    ELSE IF LastInnerEvent(protocol, instructions, start + 1, metadata) # 0
            THEN LastInnerEvent(protocol, instructions, start + 1, metadata)
    ELSE IF dispatch_inner_instruction(protocol, instructions[start].data, metadata) # NoEvent
            THEN start
    ELSE 0

\* event_parser.rs:490-511: the first instruction of the group, from start_idx on,
\* that the protocol's inner parser decodes (0 when there is none; 1-based)
RECURSIVE FirstInnerEvent(_, _, _, _)
FirstInnerEvent(protocol, instructions, start, metadata) ==
    IF start > Len(instructions) THEN 0
    ELSE IF dispatch_inner_instruction(protocol, instructions[start].data, metadata) # NoEvent
            THEN start
            ELSE FirstInnerEvent(protocol, instructions, start + 1, metadata)

\* event_parser.rs:529-532: the event log found, if any, is merged into the event
MergeInnerEvent(event, protocol, instructions, found, metadata) ==
    IF found = 0 THEN event
    ELSE merge(event, dispatch_inner_instruction(protocol, instructions[found].data, metadata))

\* event_parser.rs:519-526: a MIGRATE instruction of PumpFun for which the scan of
\* the group found no event
MigrateWithoutInnerEvent(protocol, data, found) ==
    protocol = "PumpFun" /\ data.disc = "MIGRATE_IX" /\ found = 0

\* Every instruction of a protocol needs the index
instruction_needs_program_data_always(protocol, data) == TRUE

\* event_parser.rs:813-841 (the CPMM arm calls a function the sources do not
\* hold, and no CPMM instruction is among the inputs); data of fewer than 8
\* bytes has the discriminator ""
instruction_needs_program_data(protocol, data) ==
    CASE protocol = "RaydiumClmm" ->
           data.disc # "" /\ is_raydium_clmm_swap_instruction(data.disc)
      [] protocol = "Whirlpool" ->
           data.disc # "" /\ is_whirlpool_swap_instruction(data.disc)
      [] OTHER -> FALSE

\* event_parser.rs:952-1070: the item of the instruction's slot, when the index
\* was built and has one that decodes for the event's pool, fills the event
enrich_event_from_program_data(event, protocol, pdi, outer_index, inner_index) ==
    IF pdi = <<>> THEN event
    ELSE LET item == IF inner_index # NoInner
                        THEN get_inner(pdi[1], outer_index, inner_index)
                        ELSE get_outer(pdi[1], outer_index)
         IN  IF item = NoItem THEN event
             ELSE IF /\ protocol = "RaydiumClmm"
                     /\ event.kind \in {"RaydiumClmmSwapEvent", "RaydiumClmmSwapV2Event"}
                     /\ parse_swap_event_from_program_data(item, event.pool_state) # <<>>
                THEN LET log_data == parse_swap_event_from_program_data(
                                         item, event.pool_state)[1]
                     IN  [event EXCEPT !.amount_0 = log_data.amount_0,
                                       !.amount_1 = log_data.amount_1,
                                       !.sqrt_price_x64 = log_data.sqrt_price_x64]
             ELSE event

\* event_parser.rs:397-539. group is the inner-instruction list of the outer
\* instruction (<<>> when it has none), pdi the program-data index if built
parse_event_from_grpc_instruction(protos, filter, ix, outer_index, inner_index, group, pdi) ==
    LET metadata == EventMetadata(ix.program_id, outer_index, inner_index)
        protocol == match_protocol_by_program_id(ix.program_id)
        parsed   == dispatch_instruction(protocol, ix.data, ix.accounts, metadata)
        event    == IF parsed = NoEvent THEN NoEvent
                    ELSE enrich_event_from_program_data(parsed, protocol, pdi,
                                                        outer_index, inner_index)
        start    == IF inner_index >= 0 THEN inner_index + 2 ELSE 1
        found    == FirstInnerEvent(protocol, group, start, metadata)
    IN  IF ~should_handle(protos, filter, ix.program_id) THEN NoEvent
        ELSE IF ~is_compute_budget_program(ix.program_id) /\ ix.data.disc = "" THEN NoEvent
        ELSE IF is_compute_budget_program(ix.program_id)
                THEN dispatch_compute_budget_instruction(ix.data, metadata)
        ELSE IF protocol = None THEN NoEvent
        ELSE IF event = NoEvent THEN NoEvent
        ELSE IF MigrateWithoutInnerEvent(protocol, ix.data, found) THEN NoEvent
        ELSE MergeInnerEvent(event, protocol, group, found, metadata)

\* event_parser.rs:715-758: <<from_mint, to_mint>> of a swap event, <<>> for None.
\* Of the variants the parsers of this model produce, the match names the two
\* PumpSwap swaps and the CLMM SwapV2; RaydiumClmmSwapEvent falls to `_ => None`
extract_swap_mints(event) ==
    LET mints == CASE event.kind = "PumpSwapBuyEvent" -> <<event.quote_mint, event.base_mint>>
                   [] event.kind = "PumpSwapSellEvent" -> <<event.base_mint, event.quote_mint>>
                   [] event.kind = "RaydiumClmmSwapV2Event" ->
                        <<event.input_vault_mint, event.output_vault_mint>>
                   [] OTHER -> <<>>
    IN  IF mints = <<>> THEN <<>>
        ELSE IF mints[1] = DefaultPubkey \/ mints[2] = DefaultPubkey THEN <<>>
        ELSE mints

\* A segment marked without the test that it closes on its first mint
mark_arb_segment_open(events, legs) ==
    IF Len(legs) < 2 THEN {} ELSE {legs[n] : n \in 1..Len(legs)}

\* A segment marked only from three legs on
mark_arb_segment_three(events, legs) ==
    IF Len(legs) < 3 THEN {}
    ELSE IF extract_swap_mints(events[legs[1]])[1]
              # extract_swap_mints(events[legs[Len(legs)]])[2] THEN {}
    ELSE {legs[n] : n \in 1..Len(legs)}

\* event_parser.rs:760-777: the events a segment of legs marks (none unless it has
\* two legs or more and closes on its first mint)
mark_arb_segment(events, legs) ==
    IF Len(legs) < 2 THEN {}
    ELSE IF extract_swap_mints(events[legs[1]])[1]
              # extract_swap_mints(events[legs[Len(legs)]])[2] THEN {}
    ELSE {legs[n] : n \in 1..Len(legs)}

\* event_parser.rs:780-810: the loop over the events, from event_index on, with the
\* segment collected so far and the events marked so far
RECURSIVE MarkLoop(_, _, _, _)
MarkLoop(events, event_index, segment_legs, marked) ==
    IF event_index > Len(events) THEN marked \cup mark_arb_segment(events, segment_legs)
    ELSE LET event == events[event_index]
             swap_mints == extract_swap_mints(event)
         IN  IF event.metadata.inner_index = NoInner
                THEN MarkLoop(events, event_index + 1, segment_legs, marked)
             ELSE IF swap_mints = <<>>
                THEN MarkLoop(events, event_index + 1, <<>>,
                              marked \cup mark_arb_segment(events, segment_legs))
             ELSE IF /\ segment_legs # <<>>
                     /\ extract_swap_mints(events[segment_legs[Len(segment_legs)]])[2]
                          # swap_mints[1]
                THEN MarkLoop(events, event_index + 1, <<event_index>>,
                              marked \cup mark_arb_segment(events, segment_legs))
             ELSE MarkLoop(events, event_index + 1, Append(segment_legs, event_index), marked)

\* event_parser.rs:779-811
mark_arb_inner_swap_events(events) ==
    LET marked == MarkLoop(events, 1, <<>>, {})
    IN  [n \in 1..Len(events) |->
            IF n \in marked THEN [events[n] EXCEPT !.metadata.is_arb_leg = TRUE]
            ELSE events[n]]

\* The group's events handed over last to first
EmitInnerEventsReversed(received, events) ==
    received \o [n \in 1..Len(events) |-> events[Len(events) + 1 - n]]

\* event_parser.rs:341-343: the callback receives the group's events in order
EmitInnerEvents(received, events) == received \o events

\* event_parser.rs:261-263: the first group whose index is that of the instruction
InnerInstructionsOf(groups, k) ==
    IF \E g \in 1..Len(groups) : groups[g].index = k
       THEN groups[CHOOSE g \in 1..Len(groups) :
                      /\ groups[g].index = k
                      /\ \A h \in 1..(g - 1) : groups[h].index # k].instructions
       ELSE <<>>

\* Sequences over S of length at most n
BoundedSeq(S, n) == UNION {[1..m -> S] : m \in 0..n}

NoFilter == [some |-> FALSE, include |-> {}]
SwapAccounts(base, quote) ==
    [len |-> 13, pool |-> "P1", user |-> "U1", base_mint |-> base, quote_mint |-> quote]
EventLog(disc) ==
    Instruction("PumpSwap", disc, <<>>, NoAccounts,
                [timestamp |-> 7, amount |-> 1000, limit |-> 2000, quote_amount |-> 1950,
                 pool |-> "P1", user |-> "U1", valid |-> TRUE])
BuyIx(base, quote) ==
    Instruction("PumpSwap", "BUY_IX", <<1000, 2000>>, SwapAccounts(base, quote), NoLog)
SellIx(base, quote) ==
    Instruction("PumpSwap", "SELL_IX", <<1000, 2000>>, SwapAccounts(base, quote), NoLog)
DepositIx == Instruction("PumpSwap", "DEPOSIT_IX", <<5, 6, 7>>, SwapAccounts("A", "B"), NoLog)
\* A buy that names one account fewer than the parser reads
ShortBuyIx ==
    Instruction("PumpSwap", "BUY_IX", <<1000, 2000>>,
                [SwapAccounts("A", "B") EXCEPT !.len = 12], NoLog)
BudgetIx == Instruction("ComputeBudget", "SetComputeUnitLimit", <<>>, NoAccounts, NoLog)
BudgetPriceIx == Instruction("ComputeBudget", "SetComputeUnitPrice", <<>>, NoAccounts, NoLog)
\* A compute-budget operation that is neither of the two that decode
BudgetHeapIx == Instruction("ComputeBudget", "RequestHeapFrame", <<>>, NoAccounts, NoLog)
RouterIx == Instruction("Router", "ROUTE", <<>>, NoAccounts, NoLog)
TransferIx == Instruction("Token", "TRANSFER", <<>>, NoAccounts, NoLog)

\* Inputs of the walks over whole transactions
OuterKinds == {BuyIx("A", "B"), ShortBuyIx, BudgetIx, BudgetPriceIx, BudgetHeapIx, RouterIx}
InnerKinds == {SellIx("A", "B"), EventLog("BUY_EVENT"), EventLog("SELL_EVENT"), TransferIx}
Filters == {NoFilter, [some |-> TRUE, include |-> {"PumpSwapSell"}]}

\* Inputs of the walks over one instruction and its group: swaps A->B, B->C, C->A
\* and B->A, a swap whose base mint is not resolved, an event that is not a
\* swap, an instruction that yields no event, an event log
GroupOuterKinds == {BuyIx("A", "B"), RouterIx}
GroupKinds ==
    {BuyIx("B", "A"), BuyIx("C", "B"), SellIx("C", "A"), SellIx("B", "A"),
     BuyIx(DefaultPubkey, "A"), DepositIx, TransferIx, EventLog("BUY_EVENT")}

\* Inputs of the walks over one PumpFun instruction and its group: a MIGRATE, a
\* MIGRATE that names one account fewer than the parser reads, the migration and
\* the trade event logs, a migration log too short to decode, an instruction of
\* another program
MigrateAccounts ==
    [len |-> 24, pool |-> "P1", user |-> "U1",
     base_mint |-> DefaultPubkey, quote_mint |-> DefaultPubkey]
MigrateIx == Instruction("PumpFun", "MIGRATE_IX", <<>>, MigrateAccounts, NoLog)
ShortMigrateIx ==
    Instruction("PumpFun", "MIGRATE_IX", <<>>, [MigrateAccounts EXCEPT !.len = 23], NoLog)
PumpFunLog(disc, valid) ==
    Instruction("PumpFun", disc, <<>>, NoAccounts,
                [timestamp |-> 7, amount |-> 1000, limit |-> 0, quote_amount |-> 1950,
                 pool |-> "P2", user |-> "U2", valid |-> valid])
MigrateOuterKinds == {MigrateIx, ShortMigrateIx}
MigrateGroupKinds ==
    {PumpFunLog("COMPLETE_PUMP_AMM_MIGRATION_EVENT", TRUE),
     PumpFunLog("COMPLETE_PUMP_AMM_MIGRATION_EVENT", FALSE),
     PumpFunLog("TRADE_EVENT", TRUE), TransferIx}

\* The groups of a transaction given as <<outer instruction, inner instructions>>
\* pairs: an instruction without inner instructions has no group
GroupsOf(tx) ==
    SelectSeq([i \in 1..Len(tx) |-> [index |-> i - 1, instructions |-> tx[i][2]]],
              LAMBDA g : g.instructions # <<>>)

WalkStart(tx) ==
    /\ compiled_instructions = [i \in 1..Len(tx) |-> tx[i][1]]
    /\ all_inner_instructions = GroupsOf(tx)
    /\ wpc = "begin"
    /\ index = 0
    /\ inner_idx = 0
    /\ inner_events = <<>>
    /\ delivered = <<>>
    /\ program_data_index = <<>>
    /\ builds = <<>>

\* <<signature, slot>> of the transactions walked: one with its slot, one whose
\* caller knows no slot
Transactions == {<<"S1", <<5>>>>, <<"S2", <<>>>>}

WalkIdle ==
    /\ tx_signature = "S1"
    /\ tx_slot = <<5>>
    /\ protocols = {}
    /\ type_filter = NoFilter
    /\ log_messages = <<>>
    /\ WalkStart(<<>>)

WalkInit ==
    /\ tx_signature = "S1"
    /\ tx_slot = <<5>>
    /\ protocols \in {{"PumpSwap"}, {}}
    /\ type_filter \in Filters
    /\ log_messages = <<>>
    /\ \E tx \in BoundedSeq(OuterKinds \X BoundedSeq(InnerKinds, MaxInner), MaxOuter) :
         WalkStart(tx)

GroupInit ==
    /\ \E tx \in Transactions : tx_signature = tx[1] /\ tx_slot = tx[2]
    /\ protocols = {"PumpSwap"}
    /\ type_filter = NoFilter
    /\ log_messages = <<>>
    /\ \E ix \in GroupOuterKinds, group \in BoundedSeq(GroupKinds, MaxGroup) :
         WalkStart(<<<<ix, group>>>>)

MigrateInit ==
    /\ tx_signature = "S1"
    /\ tx_slot = <<5>>
    /\ protocols \in {{"PumpFun"}, {"PumpFun", "PumpSwap"}}
    /\ type_filter = NoFilter
    /\ log_messages = <<>>
    /\ \E ix \in MigrateOuterKinds, group \in BoundedSeq(MigrateGroupKinds, MaxGroup) :
         WalkStart(<<<<ix, group>>>>)

\* The account keys of the transaction: the programs its instructions call
AccountKeys ==
    {compiled_instructions[i].program_id : i \in 1..Len(compiled_instructions)}
      \cup UNION {{all_inner_instructions[g].instructions[j].program_id :
                      j \in 1..Len(all_inner_instructions[g].instructions)} :
                  g \in 1..Len(all_inner_instructions)}

HasGroup(k) == \E g \in 1..Len(all_inner_instructions) : all_inner_instructions[g].index = k

\* event_parser.rs:246-258, 301-320: the index is built on reaching the first
\* instruction that needs it, if the transaction has log lines
NeedsBuild(ix) ==
    /\ program_data_index = <<>>
    /\ log_messages # <<>>
    /\ match_protocol_by_program_id(ix.program_id) # None
    /\ instruction_needs_program_data(match_protocol_by_program_id(ix.program_id), ix.data)
\* The index is never built
IndexLeftUnbuilt(ix) == program_data_index

IndexOnReaching(ix) ==
    IF NeedsBuild(ix)
       THEN <<build_program_data_index(
                 log_messages, Len(compiled_instructions),
                 [g \in 1..Len(all_inner_instructions) |->
                     [index |-> all_inner_instructions[g].index,
                      n |-> Len(all_inner_instructions[g].instructions)]])>>
       ELSE program_data_index

\* event_parser.rs:236-240: nothing is parsed unless some account is a handled program
WalkBegin ==
    /\ wpc = "begin"
    /\ wpc' = IF \E a \in AccountKeys : should_handle(protocols, type_filter, a)
                 THEN "outer" ELSE "done"
    /\ UNCHANGED <<walkInput, index, inner_idx, inner_events, delivered,
                   program_data_index, builds>>
    /\ UNCHANGED notWalk

\* event_parser.rs:243-285: the outer instruction is parsed and its event handed
\* to the callback; then its group, if it has one, is entered
WalkOuter ==
    /\ wpc = "outer"
    /\ index < Len(compiled_instructions)
    /\ LET ix == compiled_instructions[index + 1]
           event == parse_event_from_grpc_instruction(
                        protocols, type_filter, ix, index, NoInner,
                        InnerInstructionsOf(all_inner_instructions, index),
                        IndexOnReaching(ix))
       IN  /\ delivered' = IF should_handle(protocols, type_filter, ix.program_id)
                                /\ event # NoEvent
                              THEN Append(delivered, event) ELSE delivered
           /\ program_data_index' = IndexOnReaching(ix)
           /\ builds' = IF NeedsBuild(ix) THEN Append(builds, <<index, NoInner>>)
                         ELSE builds
    /\ IF HasGroup(index)
          THEN wpc' = "inner" /\ UNCHANGED index
          ELSE wpc' = "outer" /\ index' = index + 1
    /\ inner_idx' = 0
    /\ inner_events' = <<>>
    /\ UNCHANGED walkInput
    /\ UNCHANGED notWalk

\* event_parser.rs:287-337: one inner instruction is parsed, its event collected
WalkInner ==
    /\ wpc = "inner"
    /\ inner_idx < Len(InnerInstructionsOf(all_inner_instructions, index))
    /\ LET group == InnerInstructionsOf(all_inner_instructions, index)
           event == parse_event_from_grpc_instruction(
                        protocols, type_filter, group[inner_idx + 1], index, inner_idx, group,
                        IndexOnReaching(group[inner_idx + 1]))
       IN  /\ inner_events' = IF event # NoEvent THEN Append(inner_events, event)
                               ELSE inner_events
           /\ program_data_index' = IndexOnReaching(group[inner_idx + 1])
           /\ builds' = IF NeedsBuild(group[inner_idx + 1])
                            THEN Append(builds, <<index, inner_idx>>)
                         ELSE builds
    /\ inner_idx' = inner_idx + 1
    /\ UNCHANGED <<walkInput, wpc, index, delivered>>
    /\ UNCHANGED notWalk

\* event_parser.rs:340: the arbitrage legs among the collected events are marked
WalkMark ==
    /\ wpc = "inner"
    /\ inner_idx = Len(InnerInstructionsOf(all_inner_instructions, index))
    /\ inner_events' = mark_arb_inner_swap_events(inner_events)
    /\ wpc' = "emit"
    /\ UNCHANGED <<walkInput, index, inner_idx, delivered, program_data_index, builds>>
    /\ UNCHANGED notWalk

\* event_parser.rs:341-343: the collected events go to the callback, and the walk
\* moves on to the next outer instruction
WalkEmit ==
    /\ wpc = "emit"
    /\ delivered' = EmitInnerEvents(delivered, inner_events)
    /\ inner_events' = <<>>
    /\ index' = index + 1
    /\ wpc' = "outer"
    /\ UNCHANGED <<walkInput, inner_idx, program_data_index, builds>>
    /\ UNCHANGED notWalk

\* event_parser.rs:243, 349: the loop over the outer instructions ends
WalkEnd ==
    /\ wpc = "outer"
    /\ index = Len(compiled_instructions)
    /\ wpc' = "done"
    /\ UNCHANGED <<walkInput, index, inner_idx, inner_events, delivered,
                   program_data_index, builds>>
    /\ UNCHANGED notWalk

WalkNext ==
    \/ WalkBegin
    \/ WalkOuter
    \/ WalkInner
    \/ WalkMark
    \/ WalkEmit
    \/ WalkEnd

-----------------------------------------------------------------------------
(* Building the program-data index of one transaction: program_data_index.rs:130-182 *)

\* Inputs of the builds: the lines, and <<index_outer_len, groups>> with a group whose
\* index is no outer position
LogLines ==
    {InvokeLine("Whirlpool", "[1]"), InvokeLine("Whirlpool", "[2]"),
     SuccessLine("Whirlpool"), FailedLine("Whirlpool"),
     DataLine("d1"), TextLine(<<"swap", "success">>)}
IndexShapes ==
    {<<2, <<[index |-> 0, n |-> 2]>>>>,
     <<2, <<[index |-> 1, n |-> 2]>>>>,
     <<1, <<[index |-> 0, n |-> 1], [index |-> 3, n |-> 1]>>>>,
     <<0, <<>>>>}

IndexIdle ==
    /\ index_logs = <<>>
    /\ index_outer_len = 0
    /\ index_groups = <<>>
    /\ scan = NoScan
    /\ log_idx = 0
    /\ built = AllocIndex(0, <<>>)
    /\ ipc = "idle"

IndexInit ==
    /\ index_logs \in BoundedSeq(LogLines, MaxLogs)
    /\ \E shape \in IndexShapes : index_outer_len = shape[1] /\ index_groups = shape[2]
    /\ scan = NoScan
    /\ log_idx = 0
    /\ built = AllocIndex(0, <<>>)
    /\ ipc = "alloc"

\* program_data_index.rs:135-149
IndexAlloc ==
    /\ ipc = "alloc"
    /\ built' = AllocIndex(index_outer_len, index_groups)
    /\ scan' = [scan EXCEPT !.accesses = @ \cup AllocAccesses(index_outer_len, index_groups)]
    /\ ipc' = IF Len(index_logs) = 0 \/ index_outer_len = 0 THEN "done" ELSE "scan"
    /\ UNCHANGED <<index_logs, index_outer_len, index_groups, log_idx>>
    /\ UNCHANGED notIndex

\* program_data_index.rs:68-85: one line of the log is read
IndexScanLine ==
    /\ ipc = "scan"
    /\ log_idx < Len(index_logs)
    /\ scan' = ScanLine(scan, log_idx, index_logs[log_idx + 1])
    /\ log_idx' = log_idx + 1
    /\ UNCHANGED <<index_logs, index_outer_len, index_groups, built, ipc>>
    /\ UNCHANGED notIndex

\* program_data_index.rs:87-92
IndexCloseOpen ==
    /\ ipc = "scan"
    /\ log_idx = Len(index_logs)
    /\ scan' = CloseOpen(scan, index_logs)
    /\ ipc' = "fill"
    /\ UNCHANGED <<index_logs, index_outer_len, index_groups, log_idx, built>>
    /\ UNCHANGED notIndex

\* program_data_index.rs:152-181
IndexFill ==
    /\ ipc = "fill"
    /\ built' = FillIndex(built, scan.spans, index_logs)
    /\ scan' = [scan EXCEPT !.accesses = @ \cup FillAccesses(built, scan.spans, index_logs)]
    /\ ipc' = "done"
    /\ UNCHANGED <<index_logs, index_outer_len, index_groups, log_idx>>
    /\ UNCHANGED notIndex

IndexNext ==
    \/ IndexAlloc
    \/ IndexScanLine
    \/ IndexCloseOpen
    \/ IndexFill

-----------------------------------------------------------------------------
(* Account frames: streaming/event_parser/core/account_event_parser.rs and     *)
(* streaming/common/event_processor.rs:47-61                                   *)

\* pumpswap/types.rs:77
POOL_SIZE == 236

\* An account frame: its owner and its data, given as the length in bytes, the
\* first 8 bytes, whether the bytes after them decode as a Pool, what parse_nonce
\* makes of the data, and whether the data unpacks as a mint
AccountData(len, disc, pool, nonce, mint) ==
    [len |-> len, disc |-> disc, pool |-> pool, nonce |-> nonce, mint |-> mint]
AccountPretty(owner, data) ==
    [signature |-> "S1", slot |-> 5, pubkey |-> "K1", owner |-> owner, data |-> data]

\* account_event_parser.rs:75-84, 111-120
AccountMetadata(account) ==
    [signature |-> account.signature, slot |-> account.slot,
     protocol |-> "Common", event_type |-> "Default", program_id |-> account.owner]

\* pumpswap/types.rs:86-106
pool_parser(account, metadata) ==
    IF account.data.len < POOL_SIZE + 8 THEN NoEvent
    ELSE IF account.data.pool
       THEN [kind |-> "PumpSwapPoolAccountEvent",
             metadata |-> [metadata EXCEPT !.event_type = "AccountPumpSwapPool"],
             pubkey |-> account.pubkey, owner |-> account.owner]
    ELSE NoEvent

\* pumpswap/parser.rs:57-75 (no global-config account is among the inputs)
parse_pumpswap_account_data(discriminator, account, metadata) ==
    CASE discriminator = "POOL_ACCOUNT" -> pool_parser(account, metadata)
      [] OTHER -> NoEvent

\* dispatcher.rs:281-329 (only accounts of the PumpSwap program are among the
\* inputs)
dispatch_account(protocol, discriminator, account, metadata) ==
    CASE protocol = "PumpSwap" ->
           parse_pumpswap_account_data(discriminator, account,
                                       [metadata EXCEPT !.protocol = "PumpSwap"])
      [] OTHER -> NoEvent

\* account_event_parser.rs:217-243: only an initialized nonce account decodes
parse_nonce_account_event(account, metadata) ==
    IF account.data.nonce = "Initialized"
       THEN [kind |-> "NonceAccountEvent",
             metadata |-> [metadata EXCEPT !.event_type = "NonceAccount"],
             pubkey |-> account.pubkey, owner |-> account.owner]
       ELSE NoEvent

\* account_event_parser.rs:147-215: a mint gives a TokenInfoEvent, anything else a
\* TokenAccountEvent; both have the event type TokenAccount
parse_token_account_event(account, metadata) ==
    [kind |-> IF account.data.mint THEN "TokenInfoEvent" ELSE "TokenAccountEvent",
     metadata |-> [metadata EXCEPT !.event_type = "TokenAccount"],
     pubkey |-> account.pubkey, owner |-> account.owner]

\* account_event_parser.rs:94-101, 124-130, 135-141
PassesFilter(filter, event) ==
    IF filter.some THEN event.metadata.event_type \in filter.include ELSE TRUE

\* The account is handed to the decoder of its owner's protocol whether or not
\* the protocol is in the allow-list
ProtocolBranchAnyOwner(protos, account) ==
    /\ account.data.len >= 8
    /\ match_protocol_by_program_id(account.owner) # None

\* account_event_parser.rs:67-73: the account has a discriminator and belongs to
\* a protocol of the allow-list
ProtocolBranch(protos, account) ==
    /\ account.data.len >= 8
    /\ match_protocol_by_program_id(account.owner) # None
    /\ match_protocol_by_program_id(account.owner) \in protos

\* Inputs: accounts of the PumpSwap program, of the token program and of the
\* system program, holding a pool, a pool cut short, an unknown discriminator,
\* fewer than 8 bytes, an initialized and an uninitialized nonce, a mint
AccountOwners == {"PumpSwap", "Token", "System"}
AccountDatas ==
    {AccountData(POOL_SIZE + 8, "POOL_ACCOUNT", TRUE, "Err", FALSE),
     AccountData(POOL_SIZE, "POOL_ACCOUNT", FALSE, "Err", FALSE),
     AccountData(300, "UNKNOWN", FALSE, "Err", FALSE),
     AccountData(4, "", FALSE, "Err", FALSE),
     AccountData(80, "NONCE", FALSE, "Initialized", FALSE),
     AccountData(80, "NONCE", FALSE, "Uninitialized", FALSE),
     AccountData(82, "MINT", FALSE, "Err", TRUE)}
AccountFilters ==
    {NoFilter,
     [some |-> TRUE, include |-> {"TokenAccount"}],
     [some |-> TRUE, include |-> {"NonceAccount"}],
     [some |-> TRUE, include |-> {"AccountPumpSwapPool"}]}

AccountIdle ==
    /\ acct = AccountPretty("System", AccountData(4, "", FALSE, "Err", FALSE))
    /\ acct_protocols = {}
    /\ acct_filter = NoFilter
    /\ apc = "idle"
    /\ acct_result = NoEvent
    /\ tried = <<>>
    /\ acct_delivered = <<>>

AccountInit ==
    /\ \E owner \in AccountOwners, data \in AccountDatas : acct = AccountPretty(owner, data)
    /\ acct_protocols \in {{"PumpSwap"}, {}}
    /\ acct_filter \in AccountFilters
    /\ apc = "protocol"
    /\ acct_result = NoEvent
    /\ tried = <<>>
    /\ acct_delivered = <<>>

\* account_event_parser.rs:66-107: an account of an allow-listed protocol goes to
\* that protocol's decoder and the function returns, with the event if there is
\* one and the filter lets it pass, with None otherwise
AccountProtocol ==
    /\ apc = "protocol"
    /\ LET protocol == match_protocol_by_program_id(acct.owner)
           event == dispatch_account(protocol, acct.data.disc, acct, AccountMetadata(acct))
       IN  IF ProtocolBranch(acct_protocols, acct)
              THEN /\ tried' = Append(tried, [decoder |-> "protocol", event |-> event])
                   /\ acct_result' = IF event # NoEvent /\ PassesFilter(acct_filter, event)
                                        THEN event ELSE NoEvent
                   /\ apc' = "return"
              ELSE /\ apc' = "nonce"
                   /\ UNCHANGED <<tried, acct_result>>
    /\ UNCHANGED <<acct, acct_protocols, acct_filter, acct_delivered>>
    /\ UNCHANGED notAccount

\* account_event_parser.rs:122-131
AccountNonce ==
    /\ apc = "nonce"
    /\ LET event == parse_nonce_account_event(acct, AccountMetadata(acct))
       IN  /\ tried' = Append(tried, [decoder |-> "nonce", event |-> event])
           /\ IF event # NoEvent /\ PassesFilter(acct_filter, event)
                 THEN acct_result' = event /\ apc' = "return"
                 ELSE apc' = "token" /\ UNCHANGED acct_result
    /\ UNCHANGED <<acct, acct_protocols, acct_filter, acct_delivered>>
    /\ UNCHANGED notAccount

\* account_event_parser.rs:133-144
AccountToken ==
    /\ apc = "token"
    /\ LET event == parse_token_account_event(acct, AccountMetadata(acct))
       IN  /\ tried' = Append(tried, [decoder |-> "token", event |-> event])
           /\ acct_result' = IF PassesFilter(acct_filter, event) THEN event ELSE NoEvent
    /\ apc' = "return"
    /\ UNCHANGED <<acct, acct_protocols, acct_filter, acct_delivered>>
    /\ UNCHANGED notAccount

\* event_processor.rs:50-60: the callback is called if there is an event
AccountCallback ==
    /\ apc = "return"
    /\ acct_delivered' = IF acct_result # NoEvent THEN Append(acct_delivered, acct_result)
                         ELSE acct_delivered
    /\ apc' = "done"
    /\ UNCHANGED <<acct, acct_protocols, acct_filter, acct_result, tried>>
    /\ UNCHANGED notAccount

AccountNext ==
    \/ AccountProtocol
    \/ AccountNonce
    \/ AccountToken
    \/ AccountCallback

-----------------------------------------------------------------------------
(* The stream task and the stop() that cancels it: yellowstone_grpc.rs:110-118, *)
(* 169-275                                                                      *)

FrameKinds == {"Transaction", "Ping", "Error"}

\* No subscription yet: nothing spawned, nothing received
StreamIdle ==
    /\ stream_task = "none"
    /\ polled = FALSE
    /\ tpc = "select"
    /\ frames = <<>>
    /\ subscribe_tx = Free
    /\ control_rx = <<>>
    /\ pongs = 0
    /\ stop_pc = "idle"
    /\ nframes = 0
    /\ entered = 0
    /\ late = 0

\* lines 169-183: the stream is opened, the channels are made, the task is spawned
StreamSpawn ==
    /\ stream_task = "none"
    /\ stream_task' = "running"
    /\ UNCHANGED <<polled, tpc, frames, subscribe_tx, control_rx, pongs, stop_pc,
                   nframes, entered, late>>
    /\ UNCHANGED notStream

\* The upstream delivers a frame; an error frame or the end of the stream is the
\* last thing it delivers
FrameArrive ==
    /\ stream_task \in {"running", "cancelling"}
    /\ nframes < MaxFrames
    /\ Len(frames) < MaxReady
    /\ IF frames = <<>> THEN TRUE ELSE frames[Len(frames)] # "Error"
    /\ \E f \in FrameKinds : frames' = Append(frames, f)
    /\ nframes' = nframes + 1
    /\ UNCHANGED <<stream_task, polled, tpc, subscribe_tx, control_rx, pongs, stop_pc,
                   entered, late>>
    /\ UNCHANGED notStream

\* lines 335-338: update_subscription puts a request into the control channel,
\* while the client still has the sender (stop() drops it at line 115)
StreamUpdate ==
    /\ stream_task \in {"running", "cancelling"}
    /\ stop_pc = "idle"
    /\ Len(control_rx) < MaxChan
    /\ \E tf \in FilterIds : control_rx' = Append(control_rx, tf)
    /\ UNCHANGED <<stream_task, polled, tpc, frames, subscribe_tx, pongs, stop_pc,
                   nframes, entered, late>>
    /\ UNCHANGED notStream

\* The runtime polls the task: a branch of its select! is ready, or the await it
\* was suspended at is
TaskWake ==
    /\ stream_task = "running"
    /\ ~polled
    /\ (tpc # "select" \/ frames # <<>> \/ control_rx # <<>>)
    /\ polled' = TRUE
    /\ UNCHANGED <<stream_task, tpc, frames, subscribe_tx, control_rx, pongs, stop_pc,
                   nframes, entered, late>>
    /\ UNCHANGED notStream

\* Mutex::try_lock (line 242): succeeds iff nobody holds the lock
TryLock(holder) == holder = Free

\* A guard that leaves the lock free
GuardOfNothing(holder, who) == holder

\* The guard try_lock / lock return: the lock is held until the guard is dropped
Guard(holder, who) == who

\* lines 186-265: stream.next() is ready. A transaction, account or block-meta frame
\* is handed to process_grpc_transaction, which enters the callback; a Ping is
\* answered if try_lock succeeds and skipped otherwise; an error frame or the end
\* of the stream breaks the loop.
TaskFrame ==
    /\ stream_task \in {"running", "cancelling"}
    /\ polled
    /\ tpc = "select"
    /\ frames # <<>>
    /\ frames' = Tail(frames)
    /\ CASE Head(frames) = "Transaction" ->
               /\ tpc' = "callback"
               /\ entered' = entered + 1
               /\ late' = IF stop_pc = "returned" THEN late + 1 ELSE late
               /\ UNCHANGED <<stream_task, polled, subscribe_tx>>
         [] Head(frames) = "Ping" ->
               /\ IF TryLock(subscribe_tx)
                     THEN /\ subscribe_tx' = Guard(subscribe_tx, "ping")
                          /\ tpc' = "ping_send"
                     ELSE UNCHANGED <<subscribe_tx, tpc>>
               /\ UNCHANGED <<stream_task, polled, entered, late>>
         [] OTHER ->
               /\ stream_task' = "exited"
               /\ polled' = FALSE
               /\ UNCHANGED <<tpc, subscribe_tx, entered, late>>
    /\ UNCHANGED <<control_rx, pongs, stop_pc, nframes>>
    /\ UNCHANGED notStream

\* lines 194-238: the callback returns and process_grpc_transaction completes
TaskCallbackDone ==
    /\ stream_task \in {"running", "cancelling"}
    /\ polled
    /\ tpc = "callback"
    /\ tpc' = "select"
    /\ UNCHANGED <<stream_task, polled, frames, subscribe_tx, control_rx, pongs, stop_pc,
                   nframes, entered, late>>
    /\ UNCHANGED notStream

\* lines 243-249: the reply is sent and the guard dropped
TaskPingSend ==
    /\ stream_task \in {"running", "cancelling"}
    /\ polled
    /\ tpc = "ping_send"
    /\ pongs' = pongs + 1
    /\ subscribe_tx' = Free
    /\ tpc' = "select"
    /\ UNCHANGED <<stream_task, polled, frames, control_rx, stop_pc, nframes, entered,
                   late>>
    /\ UNCHANGED notStream

\* line 267: control_rx.next() is ready
TaskControlRecv ==
    /\ stream_task \in {"running", "cancelling"}
    /\ polled
    /\ tpc = "select"
    /\ control_rx # <<>>
    /\ control_rx' = Tail(control_rx)
    /\ tpc' = "ctl_lock"
    /\ UNCHANGED <<stream_task, polled, frames, subscribe_tx, pongs, stop_pc, nframes,
                   entered, late>>
    /\ UNCHANGED notStream

\* line 268: subscribe_tx.lock().await
TaskControlLock ==
    /\ stream_task \in {"running", "cancelling"}
    /\ polled
    /\ tpc = "ctl_lock"
    /\ subscribe_tx = Free
    /\ subscribe_tx' = Guard(subscribe_tx, "control")
    /\ tpc' = "ctl_send"
    /\ UNCHANGED <<stream_task, polled, frames, control_rx, pongs, stop_pc, nframes,
                   entered, late>>
    /\ UNCHANGED notStream

\* lines 268-271: the update is sent and the guard dropped; a failed send breaks
\* the loop
TaskControlSend ==
    /\ stream_task \in {"running", "cancelling"}
    /\ polled
    /\ tpc = "ctl_send"
    /\ subscribe_tx' = Free
    /\ \/ /\ tpc' = "select"
          /\ UNCHANGED <<stream_task, polled>>
       \/ /\ stream_task' = "exited"
          /\ polled' = FALSE
          /\ tpc' = "select"
    /\ UNCHANGED <<frames, control_rx, pongs, stop_pc, nframes, entered, late>>
    /\ UNCHANGED notStream

\* The task's poll returns Pending: no branch of the select! is ready, or the send
\* it awaits is not. A task whose cancellation was requested is dropped here,
\* with the guard it holds.
TaskYield ==
    /\ stream_task \in {"running", "cancelling"}
    /\ polled
    /\ IF tpc = "select"
          THEN frames = <<>> /\ control_rx = <<>>
          ELSE tpc \in {"ping_send", "ctl_send"}
    /\ polled' = FALSE
    /\ IF stream_task = "cancelling"
          THEN /\ stream_task' = "aborted"
               /\ subscribe_tx' = Free
               /\ tpc' = "select"
          ELSE UNCHANGED <<stream_task, subscribe_tx, tpc>>
    /\ UNCHANGED <<frames, control_rx, pongs, stop_pc, nframes, entered, late>>
    /\ UNCHANGED notStream

\* SubscriptionHandle::stop aborts the task. A suspended task is dropped at
\* once; a task that a worker thread is polling is cancelled when that poll
\* returns, at the next await that is not ready.
AbortStream(state, running) ==
    IF state = "running"
       THEN (IF running THEN "cancelling" ELSE "aborted")
       ELSE state

\* lines 111-114 of stop(): the handle is taken and stopped
StreamStopAbort ==
    /\ stop_pc = "idle"
    /\ stream_task # "none"
    /\ stop_pc' = "stopping"
    /\ stream_task' = AbortStream(stream_task, polled)
    /\ IF AbortStream(stream_task, polled) = "aborted" /\ stream_task = "running"
          THEN /\ subscribe_tx' = Free
               /\ tpc' = "select"
          ELSE UNCHANGED <<subscribe_tx, tpc>>
    /\ UNCHANGED <<polled, frames, control_rx, pongs, nframes, entered, late>>
    /\ UNCHANGED notStream

\* lines 115-118 of stop(): the sender, the request and the flag are cleared and
\* stop() returns
StreamStopReturn ==
    /\ stop_pc = "stopping"
    /\ stop_pc' = "returned"
    /\ UNCHANGED <<stream_task, polled, tpc, frames, subscribe_tx, control_rx, pongs,
                   nframes, entered, late>>
    /\ UNCHANGED notStream

StreamNext ==
    \/ StreamSpawn
    \/ FrameArrive
    \/ StreamUpdate
    \/ TaskWake
    \/ TaskFrame
    \/ TaskCallbackDone
    \/ TaskPingSend
    \/ TaskControlRecv
    \/ TaskControlLock
    \/ TaskControlSend
    \/ TaskYield
    \/ StreamStopAbort
    \/ StreamStopReturn

Init == ClientInit /\ RegistryInit /\ MergeIdle /\ WalkIdle /\ StreamIdle /\ IndexIdle /\ AccountIdle
    /\ MetricsIdle
Next == ClientNext
Spec == Init /\ [][Next]_vars

-----------------------------------------------------------------------------
(* C1: at most one stream task of a client is alive at any time, under every  *)
(* interleaving of subscribe_immediate, update_subscription and stop().       *)
C1_AtMostOneStreamTask == Cardinality(RunningTasks) <= 1

(* C2: a subscribe_immediate on a client that already holds a subscription,   *)
(* with no stop() between the two calls, returns the "Already subscribed"     *)
(* error and starts no task: two acquisitions of the flag are always          *)
(* separated by a stop() that was running in between, a caller holds the      *)
(* error only while the flag was taken, and every task belongs to an          *)
(* acquisition.                                                               *)
C2_DuplicateSubscribeRejected ==
    /\ \A i \in 1..Len(acqLog) - 1 : acqLog[i + 1].begun > acqLog[i].returned
    /\ Len(tasks) <= Len(acqLog)
    /\ \A c \in Callers : result[c] = "Err_AlreadySubscribed" => Len(acqLog) >= 1

C2_Witness ==
    /\ \E c \in Callers : result[c] = "Err_AlreadySubscribed"
    /\ Cardinality(RunningTasks) = 1
    /\ stopsBegun = 0

(* C12: a successful update_subscription sends a request equal to the request  *)
(* last sent on the subscription with only `transactions` and `accounts`        *)
(* replaced (the commitment is preserved), and the request it sent becomes the  *)
(* current request.                                                             *)
C12_UpdateKeepsOtherFields ==
    [][\A c \in Callers :
          /\ (pc[c] = "u_send" /\ pc'[c] = "u_setreq") =>
                /\ LastSent(tasks', local[c].task) = local[c].req
                /\ local[c].req =
                     [LastSent(tasks, local[c].task) EXCEPT
                        !.transactions = local[c].req.transactions,
                        !.accounts = local[c].req.accounts]
                /\ local[c].req.transactions.filter = local[c].tf
                /\ local[c].req.accounts.filter = local[c].af
          /\ (pc[c] = "u_setreq" /\ pc'[c] = "idle") =>
                /\ result'[c] = "Ok"
                /\ current_request' = local[c].req]_vars

(* C13: update_subscription on a client with no active subscription (never     *)
(* subscribed, or after stop) returns an error, sends no request and does not   *)
(* set the current request.                                                     *)
C13_UpdateWithoutSubscriptionFails ==
    [][\A c \in Callers :
          (pc[c] = "u_ctl" /\ pc'[c] # "u_ctl" /\ ~active_subscription) =>
             /\ pc'[c] = "idle"
             /\ result'[c] = "Err_NoActiveSubscription"
             /\ tasks' = tasks
             /\ current_request' = current_request]_vars

\* An update called after a subscription was stopped has returned the error
C13_Witness ==
    /\ \E c \in Callers : result[c] = "Err_NoActiveSubscription"
    /\ \A c \in Callers : pc[c] = "idle"
    /\ ncalls = 3
    /\ stopsReturned = 1
    /\ Len(tasks) = 1
    /\ ~active_subscription
    /\ current_request = NoRequest
    /\ tasks[1].chan = <<>>

(* C14: a subscribe call rejected as a duplicate leaves the existing            *)
(* subscription untouched: the stream tasks, the control channel, the current   *)
(* request and the stored event-type filter are as they were before the call.   *)
C14_RejectedSubscribeChangesNothing ==
    [][\A c \in Callers :
          (pc[c] = "s_cas" /\ pc'[c] = "idle"
             /\ result'[c] = "Err_AlreadySubscribed") =>
             /\ event_type_filter' = local[c].ef0
             /\ tasks' = tasks
             /\ control_tx' = control_tx
             /\ current_request' = current_request]_vars

\* The client holds no subscription: what stop() clears (lines 111-117)
Cleared(handle, sender, request, flag) ==
    /\ handle = NoTask
    /\ sender = NoTask
    /\ request = NoRequest
    /\ flag = FALSE

(* C16: stop() is idempotent: when a stop() returns the client has no           *)
(* stream-task handle, no control sender, no current request and a released     *)
(* flag, and a further stop() (or a stop() on a never-subscribed client)        *)
(* changes none of them, aborts no task and returns without error.              *)
C16_StopIdempotent ==
    [][\A c \in Callers :
          /\ (pc[c] = "t_flag" /\ pc'[c] = "idle") =>
                /\ result'[c] = "Ok"
                /\ Cleared(subscription_handle', control_tx', current_request',
                           active_subscription')
          /\ (local[c].op = "stop" /\ pc[c] # pc'[c]
                /\ Cleared(subscription_handle, control_tx, current_request,
                           active_subscription)) =>
                /\ tasks' = tasks
                /\ Cleared(subscription_handle', control_tx', current_request',
                           active_subscription')]_vars

(* C17: when the upstream stream yields an error frame or closes, the stream    *)
(* task leaves its loop for good; the flag is held only by a subscribe that     *)
(* acquired it after the last stop() returned, so after the next stop() a new   *)
(* subscribe is accepted.                                                       *)
C17_FlagFreeAfterStop ==
    /\ active_subscription =>
          /\ acqLog # <<>>
          /\ acqLog[Len(acqLog)].returned = stopsReturned
    /\ \A c \in Callers :
          (pc[c] = "s_cas" /\ ~active_subscription) => ENABLED SubscribeCas(c)

\* The stream of the first subscription ended, stop() returned, and a second
\* subscribe was accepted and runs its task
C17_Witness ==
    /\ Len(tasks) = 2
    /\ tasks[1].state = "exited"
    /\ tasks[2].state = "running"
    /\ Len(acqLog) = 2
    /\ acqLog[2].returned = 1
    /\ stopsBegun = 1
    /\ active_subscription
    /\ \A c \in Callers : pc[c] = "idle"

SpecRegistry == Init /\ [][RegistryNext]_vars

(* C9: the registry never holds more than MAX_SIGNATURES + CLEANUP_BATCH_SIZE  *)
(* signatures, under any interleaving of concurrent add_dev_address /          *)
(* add_bonk_dev_address calls.                                                 *)
C9_RegistryBounded ==
    Cardinality(DOMAIN signature_data) <= MAX_SIGNATURES + CLEANUP_BATCH_SIZE

(* C10: eviction is serialized: no thread is in the eviction section (after    *)
(* its winning CAS, until its last removal) while another thread is.           *)
C10_EvictionSerialized ==
    Cardinality({t \in RThreads : InEviction(t)}) <= 1

(* C11: once a token-create event with creator a has been processed for        *)
(* signature s, a trade event of s by a processed afterwards is flagged         *)
(* is_dev_create_token_trade = true, whatever insertions and evictions happen   *)
(* in between.                                                                  *)
C11_DevTradeFlagged == \A t \in RThreads : rlocal[t].trade # "unflagged"

InitMerge == ClientInit /\ RegistryInit /\ MergeInit /\ WalkIdle /\ StreamIdle /\ IndexIdle /\ AccountIdle
    /\ MetricsIdle
SpecMerge == InitMerge /\ [][MergeNext]_vars

\* The event the instruction parser produced, before merge touched it
OuterBeforeMerge ==
    dispatch_instruction(match_protocol_by_program_id(instruction.program_id),
                         instruction.data, instruction.accounts,
                         EventMetadata(instruction.program_id, 0, NoInner))

InstructionParams(e) ==
    IF e.kind = "PumpSwapBuyEvent"
       THEN <<e.base_amount_out, e.max_quote_amount_in>>
       ELSE <<e.base_amount_in, e.min_quote_amount_out>>

PositionalAccounts(e) == <<e.pool, e.user, e.base_mint, e.quote_mint>>

(* C4: merging an inner CPI event into an outer instruction event leaves the   *)
(* outer's EventMetadata, its instruction-parameter fields and the account     *)
(* fields filled from the positional account list unchanged.                   *)
C4_MergeKeepsInstructionFields ==
    mpc = "merged" =>
        /\ instruction_event.metadata = OuterBeforeMerge.metadata
        /\ InstructionParams(instruction_event) = InstructionParams(OuterBeforeMerge)
        /\ PositionalAccounts(instruction_event) = PositionalAccounts(OuterBeforeMerge)

InitWalk == ClientInit /\ RegistryInit /\ MergeIdle /\ WalkInit /\ StreamIdle /\ IndexIdle /\ AccountIdle
    /\ MetricsIdle
SpecWalk == InitWalk /\ [][WalkNext]_vars

InitGroup == ClientInit /\ RegistryInit /\ MergeIdle /\ GroupInit /\ StreamIdle /\ IndexIdle /\ AccountIdle
    /\ MetricsIdle
SpecGroup == InitGroup /\ [][WalkNext]_vars

-----------------------------------------------------------------------------
(* Properties of the walker *)

OuterIndexOf(e) == e.metadata.outer_index
InnerIndexOf(e) == e.metadata.inner_index

\* The instruction an event's indices name
InstructionAt(k, j) ==
    IF j = NoInner THEN compiled_instructions[k + 1]
    ELSE InnerInstructionsOf(all_inner_instructions, k)[j + 1]

(* C3: within one transaction the callback receives the event of outer         *)
(* instruction k, then the events of k's inner instructions in strictly         *)
(* increasing inner_index, then what outer k+1 produces: along the delivered    *)
(* sequence <<outer_index, inner_index>> grows strictly (an outer event before  *)
(* its inner events), every event carries the indices of the instruction it     *)
(* was parsed from, and nothing is delivered for an instruction not yet visited.*)
C3_DeliveryOrder ==
    /\ \A n \in 1..(Len(delivered) - 1) :
          \/ OuterIndexOf(delivered[n]) < OuterIndexOf(delivered[n + 1])
          \/ /\ OuterIndexOf(delivered[n]) = OuterIndexOf(delivered[n + 1])
             /\ InnerIndexOf(delivered[n]) < InnerIndexOf(delivered[n + 1])
    /\ \A n \in 1..Len(delivered) :
          /\ OuterIndexOf(delivered[n]) \in 0..(Len(compiled_instructions) - 1)
          /\ OuterIndexOf(delivered[n]) <= index
          /\ InnerIndexOf(delivered[n]) \in
               {NoInner} \cup 0..(Len(InnerInstructionsOf(all_inner_instructions,
                                                          OuterIndexOf(delivered[n]))) - 1)
          /\ delivered[n].metadata.program_id =
               InstructionAt(OuterIndexOf(delivered[n]), InnerIndexOf(delivered[n])).program_id

\* Two outer instructions have each delivered their event and the events of two
\* inner instructions
C3_Witness ==
    /\ wpc = "done"
    /\ Len(delivered) = 6
    /\ OuterIndexOf(delivered[4]) = 1
    /\ InnerIndexOf(delivered[4]) = NoInner
    /\ InnerIndexOf(delivered[6]) = 1

(* C5: with an event-type filter, no event of the walker (outer, inner or       *)
(* compute-budget) whose event_type is outside the include set reaches the      *)
(* callback.                                                                    *)
C5_FilterApplied ==
    type_filter.some =>
        \A n \in 1..Len(delivered) : delivered[n].metadata.event_type \in type_filter.include

\* An instruction whose data decodes as an event log of the protocol
IsEventLog(ix) == ix.data.disc \in {"BUY_EVENT", "SELL_EVENT"} /\ ix.data.log.valid
IsSwapInstruction(ix) == ix.program_id = "PumpSwap" /\ ix.data.disc \in {"BUY_IX", "SELL_IX"}
LogOfOwnKind(ix, log) ==
    \/ ix.data.disc = "BUY_IX" /\ log.data.disc = "BUY_EVENT"
    \/ ix.data.disc = "SELL_IX" /\ log.data.disc = "SELL_EVENT"
CpiAmount(e) == IF e.kind = "PumpSwapBuyEvent" THEN e.quote_amount_in ELSE e.quote_amount_out
EnrichedFrom(e, log) ==
    /\ e.timestamp = log.data.log.timestamp
    /\ CpiAmount(e) = log.data.log.quote_amount
NotEnriched(e) == e.timestamp = 0 /\ CpiAmount(e) = 0
OuterEventsOf(k) ==
    {n \in 1..Len(delivered) :
        OuterIndexOf(delivered[n]) = k /\ InnerIndexOf(delivered[n]) = NoInner}
LogsOf(k) ==
    {j \in 1..Len(InnerInstructionsOf(all_inner_instructions, k)) :
        IsEventLog(InnerInstructionsOf(all_inner_instructions, k)[j])}
\* The outer swap instructions of an allow-listed protocol, already walked, whose
\* group holds an event log
SwapsWithLog ==
    {k \in 0..(Len(compiled_instructions) - 1) :
        /\ wpc = "done"
        /\ IsSwapInstruction(compiled_instructions[k + 1])
        /\ compiled_instructions[k + 1].program_id \in protocols
        /\ LogsOf(k) # {}}
\* Those of them the instruction parser decodes: 16 bytes of arguments, 13 accounts
DecodedSwapsWithLog ==
    {k \in SwapsWithLog :
        /\ Len(compiled_instructions[k + 1].data.args) >= 2
        /\ compiled_instructions[k + 1].accounts.len >= 13}
NoLogDelivered(k) ==
    \A n \in 1..Len(delivered) :
        (OuterIndexOf(delivered[n]) = k /\ InnerIndexOf(delivered[n]) # NoInner)
            => ~IsEventLog(InstructionAt(k, InnerIndexOf(delivered[n])))

IsSwapEvent(e) == e.kind \in {"PumpSwapBuyEvent", "PumpSwapSellEvent"}
FromMint(e) == IF e.kind = "PumpSwapBuyEvent" THEN e.quote_mint ELSE e.base_mint
ToMint(e) == IF e.kind = "PumpSwapBuyEvent" THEN e.base_mint ELSE e.quote_mint
IsLeg(e) == IsSwapEvent(e) /\ FromMint(e) # DefaultPubkey /\ ToMint(e) # DefaultPubkey

\* The inner events delivered for outer instruction k, in order
InnerDelivered(k) ==
    SelectSeq(delivered, LAMBDA e : OuterIndexOf(e) = k /\ InnerIndexOf(e) # NoInner)

\* a..b is a run of consecutive legs of evs, each ending on the mint the next starts from
Chained(evs, a, b) ==
    /\ \A n \in a..b : IsLeg(evs[n])
    /\ \A n \in a..(b - 1) : ToMint(evs[n]) = FromMint(evs[n + 1])
Closed(evs, a, b) == FromMint(evs[a]) = ToMint(evs[b])
MaximalSegment(evs, a, b) ==
    /\ Chained(evs, a, b)
    /\ a = 1 \/ ~IsLeg(evs[a - 1]) \/ ToMint(evs[a - 1]) # FromMint(evs[a])
    /\ b = Len(evs) \/ ~IsLeg(evs[b + 1]) \/ ToMint(evs[b]) # FromMint(evs[b + 1])

(* C7: every event delivered with is_arb_leg = true is an inner swap event in   *)
(* a run of two or more consecutive inner swap events of one outer instruction  *)
(* that chain (each to_mint is the next from_mint) and close (the first         *)
(* from_mint is the last to_mint); no outer event is marked.                    *)
C7_MarkedOnlyInClosedChain ==
    \A n \in 1..Len(delivered) :
        delivered[n].metadata.is_arb_leg =>
            /\ InnerIndexOf(delivered[n]) # NoInner
            /\ LET evs == InnerDelivered(OuterIndexOf(delivered[n]))
               IN  \E a \in 1..Len(evs), b \in 1..Len(evs) :
                      /\ b >= a + 1
                      /\ \E m \in a..b : evs[m] = delivered[n]
                      /\ Chained(evs, a, b)
                      /\ Closed(evs, a, b)
                      /\ \A m \in a..b : evs[m].metadata.is_arb_leg

\* A cycle of three legs was delivered marked, next to an unmarked swap
C7_Witness ==
    /\ Cardinality({n \in 1..Len(delivered) : delivered[n].metadata.is_arb_leg}) = 3
    /\ \E n \in 1..Len(delivered) :
          /\ IsLeg(delivered[n])
          /\ InnerIndexOf(delivered[n]) # NoInner
          /\ ~delivered[n].metadata.is_arb_leg

(* C8: among the inner events of one outer instruction, every event of every    *)
(* maximal segment of consecutive chained swap events (a non-swap event or an   *)
(* unresolved-mint event ends the segment) that has two legs or more and        *)
(* closes on its first mint is delivered with is_arb_leg = true.                *)
C8_ClosedSegmentsMarked ==
    \A k \in 0..(Len(compiled_instructions) - 1) :
        LET evs == InnerDelivered(k)
        IN  \A a \in 1..Len(evs), b \in 1..Len(evs) :
               (b >= a + 1 /\ MaximalSegment(evs, a, b) /\ Closed(evs, a, b))
                   => \A m \in a..b : evs[m].metadata.is_arb_leg

\* A closed segment of two legs was delivered after a swap that does not chain
\* into it and before an event that is not a swap
C8_Witness ==
    /\ wpc = "done"
    /\ Len(InnerDelivered(0)) = 4
    /\ MaximalSegment(InnerDelivered(0), 2, 3)
    /\ Closed(InnerDelivered(0), 2, 3)
    /\ IsLeg(InnerDelivered(0)[1])
    /\ ~IsSwapEvent(InnerDelivered(0)[4])
    /\ InnerDelivered(0)[2].metadata.is_arb_leg

InitStream == ClientInit /\ RegistryInit /\ MergeIdle /\ WalkIdle /\ StreamIdle /\ IndexIdle /\ AccountIdle
    /\ MetricsIdle
SpecStream == InitStream /\ [][StreamNext]_vars

(* C15: after stop() has returned no new event is delivered to the callback of *)
(* the stopped subscription: no callback invocation is entered after the        *)
(* return; one entered before may still complete.                               *)
C15_NoEventAfterStop == late = 0

-----------------------------------------------------------------------------
(* Properties of the walks over a PumpFun MIGRATE and over compute-budget      *)
(* instructions                                                                *)

InitMigrate == ClientInit /\ RegistryInit /\ MergeIdle /\ MigrateInit /\ StreamIdle /\ IndexIdle /\ AccountIdle
    /\ MetricsIdle
SpecMigrate == InitMigrate /\ [][WalkNext]_vars

\* The group of outer instruction k holds an instruction that decodes to a
\* PumpFunMigrateEvent
GroupYieldsMigrate(k) ==
    \E j \in 1..Len(InnerInstructionsOf(all_inner_instructions, k)) :
        dispatch_inner_instruction(
            "PumpFun", InnerInstructionsOf(all_inner_instructions, k)[j].data,
            EventMetadata("PumpFun", k, NoInner)).kind = "PumpFunMigrateEvent"

(* C19: an outer PumpFun MIGRATE instruction produces an event only if its      *)
(* inner-instruction group also yields a PumpFunMigrateEvent: when the group    *)
(* yields no event, or only events of another kind, nothing is delivered for    *)
(* the outer MIGRATE.                                                           *)
C19_MigrateNeedsMigrateLog ==
    \A n \in 1..Len(delivered) :
        (/\ delivered[n].kind = "PumpFunMigrateEvent"
         /\ delivered[n].metadata.inner_index = NoInner)
            => GroupYieldsMigrate(delivered[n].metadata.outer_index)

\* The positions in the delivered sequence of the events of outer instruction k
OuterEventsAt(k) ==
    {n \in 1..Len(delivered) : /\ delivered[n].metadata.outer_index = k
                               /\ delivered[n].metadata.inner_index = NoInner}

\* Outer instruction k is a compute-budget instruction that decodes
DecodesAsComputeBudget(k) ==
    /\ is_compute_budget_program(compiled_instructions[k + 1].program_id)
    /\ dispatch_compute_budget_instruction(
           compiled_instructions[k + 1].data,
           EventMetadata(compiled_instructions[k + 1].program_id, k, NoInner)) # NoEvent

(* C20: every outer compute-budget instruction that decodes yields exactly one  *)
(* event, of type SetComputeUnitLimit or SetComputeUnitPrice, whether or not    *)
(* any protocol is in the allow-list; the event is the decoded instruction      *)
(* alone, nothing of the instruction's group or of a log is merged into it.     *)
(* Nothing is delivered for a compute-budget instruction that does not decode.  *)
C20_ComputeBudgetEvents ==
    \A k \in 0..(Len(compiled_instructions) - 1) :
        (/\ is_compute_budget_program(compiled_instructions[k + 1].program_id)
         /\ (k < index \/ wpc = "done")) =>
            IF DecodesAsComputeBudget(k)
               THEN /\ Cardinality(OuterEventsAt(k)) = 1
                    /\ \A n \in OuterEventsAt(k) :
                          /\ delivered[n].kind \in {"SetComputeUnitLimit", "SetComputeUnitPrice"}
                          /\ delivered[n].metadata.event_type = delivered[n].kind
                          /\ delivered[n] =
                               dispatch_compute_budget_instruction(
                                   compiled_instructions[k + 1].data,
                                   EventMetadata(compiled_instructions[k + 1].program_id,
                                                 k, NoInner))
               ELSE OuterEventsAt(k) = {}

\* With an empty allow-list a transaction of two compute-budget instructions, the
\* first with a group that holds an event log, has been walked
C20_Witness ==
    /\ wpc = "done"
    /\ protocols = {}
    /\ Len(compiled_instructions) = 2
    /\ compiled_instructions[1] = BudgetIx
    /\ compiled_instructions[2] = BudgetPriceIx
    /\ EventLog("BUY_EVENT") \in
         {InnerInstructionsOf(all_inner_instructions, 0)[j] :
            j \in 1..Len(InnerInstructionsOf(all_inner_instructions, 0))}
    /\ Len(delivered) = 2

-----------------------------------------------------------------------------
(* Properties of the walk under an outer instruction that is not handled *)

\* The cycle A->B, B->C, C->A as PumpSwap swaps
ArbCycle == <<BuyIx("B", "A"), BuyIx("C", "B"), SellIx("C", "A")>>

\* Outer instruction k belongs to no allow-listed protocol and is not compute-budget
Unlisted(k) ==
    /\ match_protocol_by_program_id(compiled_instructions[k + 1].program_id) \notin protocols
    /\ ~is_compute_budget_program(compiled_instructions[k + 1].program_id)

(* C21: when an outer instruction's program is not in the allow-list and is not *)
(* compute-budget, no outer event is delivered for it, but its inner            *)
(* instructions are decoded, marked and delivered in increasing inner_index;    *)
(* inner swaps A->B, B->C, C->A under it yield three events in that order, all  *)
(* with is_arb_leg = true.                                                      *)
C21_InnerOfUnlistedOuter ==
    \A k \in 0..(Len(compiled_instructions) - 1) :
        (Unlisted(k) /\ (k < index \/ wpc = "done")) =>
            /\ OuterEventsAt(k) = {}
            /\ \A n \in 1..(Len(InnerDelivered(k)) - 1) :
                  InnerIndexOf(InnerDelivered(k)[n]) < InnerIndexOf(InnerDelivered(k)[n + 1])
            /\ InnerInstructionsOf(all_inner_instructions, k) = ArbCycle =>
                  /\ Len(InnerDelivered(k)) = 3
                  /\ \A n \in 1..3 :
                        /\ InnerIndexOf(InnerDelivered(k)[n]) = n - 1
                        /\ IsLeg(InnerDelivered(k)[n])
                        /\ FromMint(InnerDelivered(k)[n]) = <<"A", "B", "C">>[n]
                        /\ ToMint(InnerDelivered(k)[n]) = <<"B", "C", "A">>[n]
                        /\ InnerDelivered(k)[n].metadata.is_arb_leg

\* The cycle under a router instruction has been walked and delivered
C21_Witness ==
    /\ wpc = "done"
    /\ compiled_instructions = <<RouterIx>>
    /\ InnerInstructionsOf(all_inner_instructions, 0) = ArbCycle
    /\ Len(delivered) = 3
    /\ \A n \in 1..3 : delivered[n].metadata.is_arb_leg

-----------------------------------------------------------------------------
(* Properties of the metadata of the delivered events *)

\* The event carries the signature of the transaction and, when the transaction
\* comes with a slot, that slot
OfTransaction(e) ==
    /\ e.metadata.signature = tx_signature
    /\ tx_slot # <<>> => e.metadata.slot = tx_slot[1]

Last(seq) == seq[Len(seq)]

-----------------------------------------------------------------------------
(* Properties of the program-data index *)

InitIndex ==
    ClientInit /\ RegistryInit /\ MergeIdle /\ WalkIdle /\ StreamIdle /\ IndexInit /\ AccountIdle
    /\ MetricsIdle
SpecIndex == InitIndex /\ [][IndexNext]_vars

\* The line shapes of the log format: "Program <Pubkey> invoke [<depth>]",
\* "Program <Pubkey> success" and "Program <Pubkey> failed: ..."
IsInvokeShape(log) ==
    /\ Len(log) = 4
    /\ log[1] = "Program"
    /\ log[2] \in Pubkeys
    /\ log[3] = "invoke"
    /\ DepthOfWord(log[4]) # <<>>
IsCloseShape(log) ==
    /\ Len(log) >= 3
    /\ log[1] = "Program"
    /\ log[2] \in Pubkeys
    /\ (Len(log) = 3 /\ log[3] = "success") \/ log[3] = "failed:"

(* C23: while the log list is scanned, only a "Program <Pubkey> invoke [d]"      *)
(* line opens a span and only a "Program <Pubkey> success" or "Program <Pubkey>  *)
(* failed: ..." line closes the span on top of the stack; every other line,      *)
(* a "Program log:" or "Program data:" line of any text among them, leaves the   *)
(* spans and the stack of open spans as they are.                                *)
C23_OnlyBracketLinesMoveStack ==
    [][(ipc = "scan" /\ log_idx < Len(index_logs)) =>
          IF IsInvokeShape(index_logs[log_idx + 1])
             THEN /\ Len(scan'.spans) = Len(scan.spans) + 1
                  /\ scan'.stack = Append(scan.stack, Len(scan.spans))
          ELSE IF IsCloseShape(index_logs[log_idx + 1]) /\ scan.stack # <<>>
             THEN /\ scan'.stack = SubSeq(scan.stack, 1, Len(scan.stack) - 1)
                  /\ scan'.spans[scan.stack[Len(scan.stack)] + 1].end = log_idx
          ELSE /\ scan'.stack = scan.stack
               /\ scan'.spans = scan.spans
      ]_vars

\* The spans the scan found, by position: those of depth 1, and those of depth 2
\* or more inside the span at position o; the i-th of a set of positions in
\* the order of the lines the spans start on
DepthOnePositions == {n \in 1..Len(scan.spans) : scan.spans[n].depth = 1}
InnerPositions(o) ==
    {n \in 1..Len(scan.spans) : /\ scan.spans[n].depth >= 2
                                /\ scan.spans[n].start >= scan.spans[o].start
                                /\ scan.spans[n].end <= scan.spans[o].end}
NthByStart(S, i) ==
    CHOOSE n \in S :
        Cardinality({m \in S : scan.spans[m].start < scan.spans[n].start}) = i - 1
Filled == ipc = "done" /\ index_logs # <<>> /\ index_outer_len > 0

\* The slots of the index that have a target span, as <<slot content, span>>
OuterTargets ==
    {<<built.outer[i], scan.spans[NthByStart(DepthOnePositions, i)]>> :
        i \in {k \in 1..Len(built.outer) : k <= Cardinality(DepthOnePositions)}}
InnerTargets ==
    UNION {{<<built.inner[i][j],
              scan.spans[NthByStart(InnerPositions(NthByStart(DepthOnePositions, i)), j)]>> :
               j \in {k \in 1..Len(built.inner[i]) :
                        k <= Cardinality(InnerPositions(NthByStart(DepthOnePositions, i)))}} :
           i \in {k \in 1..Len(built.inner) : k <= Cardinality(DepthOnePositions)}}

\* The "Program data:" lines of a span that lie in no strictly deeper span
\* inside it (0-based line numbers)
IsDataLine(log) == Len(log) = 3 /\ log[1] = "Program" /\ log[2] = "data:"
OwnDataLines(span) ==
    {idx \in 0..(Len(index_logs) - 1) :
        /\ span.start <= idx
        /\ idx <= span.end
        /\ IsDataLine(index_logs[idx + 1])
        /\ ~\E c \in 1..Len(scan.spans) :
              /\ scan.spans[c].depth > span.depth
              /\ scan.spans[c].start >= span.start
              /\ scan.spans[c].end <= span.end
              /\ scan.spans[c].start <= idx
              /\ idx <= scan.spans[c].end}

(* C24: in the finished index, the item attributed to a target span is the first *)
(* "Program data:" line, in log order, that lies inside the span and inside no   *)
(* strictly deeper child span of it, with the span's program and depth; when the *)
(* span has no such line its slot stays empty.                                   *)
C24_FirstOwnDataLine ==
    Filled =>
       \A t \in OuterTargets \cup InnerTargets :
          IF OwnDataLines(t[2]) = {} THEN t[1] = NoItem
          ELSE /\ t[1].log_index \in OwnDataLines(t[2])
               /\ \A idx \in OwnDataLines(t[2]) : t[1].log_index <= idx
               /\ t[1].base64 = index_logs[t[1].log_index + 1][3]
               /\ t[1].program_id = t[2].program_id
               /\ t[1].depth = t[2].depth

\* An outer span whose own data line comes after a data line of a child span
C24_Witness ==
    /\ Filled
    /\ \E t \in OuterTargets :
          /\ t[1] # NoItem
          /\ \E idx \in t[2].start..(t[1].log_index - 1) : IsDataLine(index_logs[idx + 1])

(* C25: outer slot i of the finished index is computed from the i-th span of     *)
(* depth 1 in the order the spans are met in the log, for every i below the      *)
(* outer count for which such a span exists.                                     *)
C25_OuterSlotFromIthDepthOneSpan ==
    Filled =>
       \A i \in 1..index_outer_len :
          i <= Cardinality(DepthOnePositions) =>
             built.outer[i] =
                find_program_data_in_span(scan.spans[NthByStart(DepthOnePositions, i)],
                                          scan.spans, index_logs)

\* The second outer slot is filled from the second depth-1 span, which comes
\* after a span of another depth
C25_Witness ==
    /\ Filled
    /\ index_outer_len >= 2
    /\ Cardinality(DepthOnePositions) >= 2
    /\ built.outer[2] # NoItem
    /\ \E n \in 1..Len(scan.spans) :
          /\ scan.spans[n].depth # 1
          /\ n < NthByStart(DepthOnePositions, 2)

(* C26: inner slot j of outer i is computed from the j-th span of depth 2 or     *)
(* more contained in the i-th depth-1 span, the spans taken in the order of      *)
(* their start lines, for every j below both the number of such spans and the    *)
(* length of that outer's inner-instruction list.                                *)
C26_InnerSlotFromJthDeeperSpan ==
    Filled =>
       \A i \in 1..index_outer_len :
          i <= Cardinality(DepthOnePositions) =>
             \A j \in 1..Len(built.inner[i]) :
                j <= Cardinality(InnerPositions(NthByStart(DepthOnePositions, i))) =>
                   built.inner[i][j] =
                      find_program_data_in_span(
                         scan.spans[NthByStart(InnerPositions(NthByStart(DepthOnePositions, i)), j)],
                         scan.spans, index_logs)

\* The second inner slot of an outer instruction is filled
C26_Witness ==
    /\ Filled
    /\ \E i \in 1..index_outer_len :
          /\ Len(built.inner[i]) >= 2
          /\ built.inner[i][2] # NoItem
          /\ built.inner[i][2].depth >= 2

\* The slots of the index that hold an item
FilledSlots ==
    {i \in 1..Len(built.outer) :
        \/ built.outer[i] # NoItem
        \/ \E j \in 1..Len(built.inner[i]) : built.inner[i][j] # NoItem}

(* C27: whatever the log list (unmatched invoke and success lines included),     *)
(* the outer count and the inner-instruction groups (a group whose index is no   *)
(* outer position included), building the index reads and writes no position     *)
(* outside its vector, the index has one outer slot and one inner row per outer  *)
(* instruction, and only the slots below min(number of depth-1 spans, outer      *)
(* count) are filled.                                                            *)
C27_BuildStaysInBounds ==
    /\ \A a \in scan.accesses : 0 <= a[1] /\ a[1] < a[2]
    /\ ipc \in {"scan", "fill", "done"} =>
          /\ Len(built.outer) = index_outer_len
          /\ Len(built.inner) = index_outer_len
    /\ \A i \in FilledSlots :
          /\ ipc = "done"
          /\ i <= Min({Cardinality(DepthOnePositions), index_outer_len})

\* A finished build over a success line with nothing open, an invoke never
\* closed, more depth-1 spans than outer instructions and a group whose index
\* is no outer position
C27_Witness ==
    /\ ipc = "done"
    /\ \E g \in 1..Len(index_groups) : index_groups[g].index >= index_outer_len
    /\ Cardinality(DepthOnePositions) > index_outer_len
    /\ index_logs # <<>> /\ index_logs[1] = SuccessLine("Whirlpool")
    /\ parse_invoke_line(index_logs[Len(index_logs)]) # <<>>
    /\ FilledSlots # {}

-----------------------------------------------------------------------------
(* Lazy construction of the program-data index by the walker:                *)
(* event_parser.rs:246-258, 301-320                                          *)

\* Inputs: swaps of the CLMM program and of Whirlpool, an instruction of the CLMM
\* program that is no swap, instructions of programs that read no log data;
\* no log, the log of one CLMM swap, of a CLMM swap called by a router, and of
\* a CLMM swap of another pool after another instruction
ClmmSwapIx ==
    Instruction("RaydiumClmm", "SWAP", <<1000, 2000, 0, 0, 1>>, SwapAccounts("A", "B"), NoLog)
WhirlpoolSwapIx ==
    Instruction("Whirlpool", "SWAP", <<1000, 2000, 0, 0, 1>>, SwapAccounts("A", "B"), NoLog)
ClmmCollectIx ==
    Instruction("RaydiumClmm", "COLLECT_FEE", <<>>, SwapAccounts("A", "B"), NoLog)
LazyOuterKinds == {ClmmSwapIx, WhirlpoolSwapIx, ClmmCollectIx, BuyIx("A", "B"), RouterIx}
LazyInnerKinds == {ClmmSwapIx, TransferIx}
LazyLogs ==
    {<<>>,
     <<InvokeLine("RaydiumClmm", "[1]"), DataLine("d1"), SuccessLine("RaydiumClmm")>>,
     <<InvokeLine("Router", "[1]"), InvokeLine("RaydiumClmm", "[2]"), DataLine("d1"),
       SuccessLine("RaydiumClmm"), SuccessLine("Router")>>,
     <<InvokeLine("PumpSwap", "[1]"), SuccessLine("PumpSwap"),
       InvokeLine("RaydiumClmm", "[1]"), DataLine("d2"), SuccessLine("RaydiumClmm")>>}

LazyInit ==
    /\ tx_signature = "S1"
    /\ tx_slot = <<5>>
    /\ protocols \in {{"RaydiumClmm"}, {"PumpSwap"}, {"PumpSwap", "RaydiumClmm"},
                      {"RaydiumClmm", "Whirlpool"}}
    /\ type_filter = NoFilter
    /\ log_messages \in LazyLogs
    /\ \E tx \in BoundedSeq(LazyOuterKinds \X BoundedSeq(LazyInnerKinds, MaxInner), MaxOuter) :
         WalkStart(tx)

InitLazy == ClientInit /\ RegistryInit /\ MergeIdle /\ LazyInit /\ StreamIdle /\ IndexIdle /\ AccountIdle
    /\ MetricsIdle
SpecLazy == InitLazy /\ [][WalkNext]_vars

\* The instruction at a position <<outer index, inner index>> of the transaction
BuiltAt(b) ==
    IF b[2] = NoInner THEN compiled_instructions[b[1] + 1]
    ELSE InnerInstructionsOf(all_inner_instructions, b[1])[b[2] + 1]
\* A swap of a protocol whose events are completed from "Program data:" lines
ConsumesProgramData(ix) ==
    /\ ix.program_id \in {"RaydiumCpmm", "RaydiumClmm", "Whirlpool"}
    /\ ix.data.disc \in {"SWAP", "SWAP_V2", "SWAP_BASE_IN", "SWAP_BASE_OUT"}
\* The event holds a field taken from a log line
LogDerived(e) ==
    /\ e.kind \in {"RaydiumClmmSwapEvent", "RaydiumClmmSwapV2Event"}
    /\ e.amount_0 # 0 \/ e.amount_1 # 0 \/ e.sqrt_price_x64 # 0
AllEvents ==
    {delivered[n] : n \in 1..Len(delivered)} \cup {inner_events[n] : n \in 1..Len(inner_events)}

-----------------------------------------------------------------------------
(* Instructions that do not decode: event_parser.rs:413-433, 243-347 *)

\* Inputs: a buy and a sell that decode, a buy that names one account fewer than
\* the parser reads, an instruction whose discriminator the protocol does not
\* know, and one whose data is shorter than a discriminator
UnknownIx == Instruction("PumpSwap", "UNKNOWN", <<1000, 2000>>, SwapAccounts("A", "B"), NoLog)
ShortDataIx == Instruction("PumpSwap", "", <<>>, SwapAccounts("A", "B"), NoLog)
UndecodableKinds == {BuyIx("A", "B"), SellIx("A", "B"), ShortBuyIx, UnknownIx, ShortDataIx}

UndecodableInit ==
    /\ tx_signature = "S1"
    /\ tx_slot = <<5>>
    /\ protocols = {"PumpSwap"}
    /\ type_filter = NoFilter
    /\ log_messages = <<>>
    /\ \E tx \in BoundedSeq(UndecodableKinds \X BoundedSeq(UndecodableKinds, MaxInner),
                            MaxOuter) :
         WalkStart(tx)

InitUndecodable ==
    ClientInit /\ RegistryInit /\ MergeIdle /\ UndecodableInit /\ StreamIdle /\ IndexIdle /\ AccountIdle
    /\ MetricsIdle
SpecUndecodable == InitUndecodable /\ [][WalkNext]_vars

\* The instruction cannot be decoded: its data is shorter than a discriminator,
\* its discriminator is unknown, or it names too few accounts
CannotDecode(ix) ==
    \/ ix.data.disc = ""
    \/ ix.data.disc \notin {"BUY_IX", "SELL_IX"}
    \/ ix.accounts.len < 13
\* The positions <<outer index, inner index>> of the transaction's instructions
Positions ==
    {<<k, NoInner>> : k \in 0..(Len(compiled_instructions) - 1)}
      \cup UNION {{<<k, j>> : j \in 0..(Len(InnerInstructionsOf(all_inner_instructions, k)) - 1)} :
                  k \in 0..(Len(compiled_instructions) - 1)}
\* The events the callback received for the instruction at a position
DeliveredFor(b) ==
    {n \in 1..Len(delivered) :
        /\ delivered[n].metadata.outer_index = b[1]
        /\ delivered[n].metadata.inner_index = b[2]}

(* C29: when the walk of a transaction has ended, an instruction that could not  *)
(* be decoded (data shorter than its discriminator, unknown discriminator, a     *)
(* required account missing) has produced no event, and the walk was not cut     *)
(* short by it: every other instruction, those of its own inner-instruction      *)
(* group and the later outer instructions among them, has produced its event.    *)
C29_UndecodableIsSkipped ==
    wpc = "done" =>
       \A b \in Positions :
          IF CannotDecode(BuiltAt(b)) THEN DeliveredFor(b) = {}
          ELSE Cardinality(DeliveredFor(b)) = 1

\* A finished walk whose first outer instruction does not decode, with an
\* instruction in its group and a later outer instruction that do
C29_Witness ==
    /\ wpc = "done"
    /\ Len(compiled_instructions) = 2
    /\ CannotDecode(compiled_instructions[1])
    /\ InnerInstructionsOf(all_inner_instructions, 0) # <<>>
    /\ CannotDecode(InnerInstructionsOf(all_inner_instructions, 0)[1])
    /\ DeliveredFor(<<0, 1>>) # {}
    /\ DeliveredFor(<<1, NoInner>>) # {}

-----------------------------------------------------------------------------
(* Properties of the account frames *)

InitAccount ==
    ClientInit /\ RegistryInit /\ MergeIdle /\ WalkIdle /\ StreamIdle /\ IndexIdle /\ AccountInit
    /\ MetricsIdle
SpecAccount == InitAccount /\ [][AccountNext]_vars

DecodersTried == {tried[n].decoder : n \in 1..Len(tried)}
\* No protocol-specific decoder has produced an event for the frame
NoProtocolEvent == \A n \in 1..Len(tried) : tried[n].decoder = "protocol" => tried[n].event = NoEvent
\* The frame is an account, with a discriminator, of a program of the allow-list
ProtocolOwned == acct.data.len >= 8 /\ acct.owner \in acct_protocols

-----------------------------------------------------------------------------
(* Merging twice *)

(* C31: merge is idempotent: applying it a second time with the same inner CPI   *)
(* event leaves the outer event exactly as the first merge left it.              *)
C31_MergeIdempotent ==
    [][(mpc = "merged" /\ mpc' = "remerged") => instruction_event' = instruction_event]_vars

\* A second merge of an event the first merge had changed
C31_Witness ==
    /\ mpc = "remerged"
    /\ instruction_event.kind = cpi_log_event.kind
    /\ instruction_event.timestamp = cpi_log_event.timestamp
    /\ instruction_event.timestamp # 0

-----------------------------------------------------------------------------
(* The active-subscription flag and the stream task *)

\* A subscribe_events_immediate call is between its entry and its return
SubscribeInProgress == \E c \in Callers : local[c].op = "subscribe"

(* C32: in every reachable state in which the active-subscription flag is set    *)
(* and no subscribe_events_immediate call is in progress, a stream task of the   *)
(* client is alive, also after the upstream stream has ended.                    *)
C32_ActiveFlagMeansLiveTask ==
    (active_subscription /\ ~SubscribeInProgress) => RunningTasks # {}

\* The same, for the runs in which every attempt to open the stream succeeded
\* and no stop() was called
ActiveFlagMeansLiveTaskOnceOpened ==
    (/\ active_subscription
     /\ ~SubscribeInProgress
     /\ stopsBegun = 0
     /\ Len(tasks) > 0) => RunningTasks # {}

(* C33: when subscribe_events_immediate has failed while opening the upstream    *)
(* stream, the client is left unsubscribed: once the call has returned the       *)
(* error and no other call has acquired the flag since, the flag is free, so a   *)
(* retry is not rejected with "Already subscribed".                              *)
C33_FailedSetupReleasesFlag ==
    [][\A c \in Callers :
          (pc[c] = "s_connect" /\ result'[c] = "Err_Transport" /\ pc'[c] = "idle")
             => ~active_subscription']_vars

-----------------------------------------------------------------------------
(* The recorded request and the upstream write half *)

\* An update_subscription call is between its entry and its return
UpdateInFlight == \E c \in Callers : local[c].op = "update"

\* The request the write half of task t holds once the task has forwarded what it
\* is still going to forward: a task that has left its loop forwards nothing more
Written(ts, t) ==
    IF ts[t].state \in {"created", "running"} THEN LastSent(ts, t) ELSE ts[t].upstream

(* C34: whenever no update_subscription call is in flight, the recorded current  *)
(* request equals the request most recently written to the upstream write half,  *)
(* also when several update_subscription calls ran concurrently and when the     *)
(* stream task has stopped forwarding queued updates.                            *)
C34_RecordedRequestIsUpstreamRequest ==
    (/\ ~UpdateInFlight
     /\ control_tx # NoTask
     /\ current_request # NoRequest) => current_request = Written(tasks, control_tx)

\* The same, for the runs without stop() in which the task is still forwarding
RecordedRequestIsUpstreamWhileForwarding ==
    (/\ ~UpdateInFlight
     /\ ~SubscribeInProgress
     /\ stopsBegun = 0
     /\ control_tx # NoTask
     /\ tasks[control_tx].state = "running"
     /\ current_request # NoRequest) => current_request = Written(tasks, control_tx)

-----------------------------------------------------------------------------
(* The signature counter and the signature map *)

\* No thread is inside add_dev_address, add_bonk_dev_address or maybe_cleanup
RegistryQuiescent == \A t \in RThreads : rpc[t] = "idle"

(* C35: whenever no registry operation is in progress, signature_count equals    *)
(* the number of entries of the signature map, under every interleaving of       *)
(* add_dev_address, add_bonk_dev_address and cleanup executions.                 *)
C35_CountEqualsMapSize ==
    RegistryQuiescent => signature_count = Cardinality(DOMAIN signature_data)

-----------------------------------------------------------------------------
(* Event logs and the events they are merged into *)

\* The instruction a delivered event was parsed from
InstructionOf(e) ==
    IF e.metadata.inner_index = NoInner
       THEN compiled_instructions[e.metadata.outer_index + 1]
       ELSE InnerInstructionsOf(all_inner_instructions,
                                e.metadata.outer_index)[e.metadata.inner_index + 1]

\* event_parser.rs:496-532: the position (from 1) in its group of the event log
\* that was merged into the delivered event e; 0 when the scan found none, or
\* found one of another variant, which merge leaves out
MergedLog(e) ==
    LET group    == InnerInstructionsOf(all_inner_instructions, e.metadata.outer_index)
        protocol == match_protocol_by_program_id(InstructionOf(e).program_id)
        start    == IF e.metadata.inner_index >= 0 THEN e.metadata.inner_index + 2 ELSE 1
        found    == FirstInnerEvent(protocol, group, start, e.metadata)
    IN  IF protocol = None \/ found = 0 THEN 0
        ELSE IF dispatch_inner_instruction(protocol, group[found].data,
                                           e.metadata).kind = e.kind
                THEN found
                ELSE 0

(* C36: within one transaction each inner event-log instruction is merged into   *)
(* at most one delivered event: no two delivered events of one outer             *)
(* instruction (the outer event and an inner event, or two inner events) are     *)
(* enriched from the same event-log instruction.                                 *)
C36_EventLogMergedOnce ==
    \A a, b \in 1..Len(delivered) :
       (/\ a < b
        /\ delivered[a].metadata.outer_index = delivered[b].metadata.outer_index
        /\ MergedLog(delivered[a]) # 0)
          => MergedLog(delivered[a]) # MergedLog(delivered[b])

-----------------------------------------------------------------------------
(* Lazy and eager construction of the program-data index *)

\* The index of the whole transaction, built before the first instruction is
\* looked at (program_data_index.rs:130-182 called at the head of the walk)
EagerIndex ==
    <<build_program_data_index(
         log_messages, Len(compiled_instructions),
         [g \in 1..Len(all_inner_instructions) |->
             [index |-> all_inner_instructions[g].index,
              n |-> Len(all_inner_instructions[g].instructions)]])>>

\* event_parser.rs:267-285 with the eager index: the outer event of instruction k
EagerOuterEvents(k) ==
    LET ix    == compiled_instructions[k + 1]
        event == parse_event_from_grpc_instruction(
                     protocols, type_filter, ix, k, NoInner,
                     InnerInstructionsOf(all_inner_instructions, k), EagerIndex)
    IN  IF should_handle(protocols, type_filter, ix.program_id) /\ event # NoEvent
           THEN <<event>> ELSE <<>>

\* event_parser.rs:287-343 with the eager index: the inner events of instruction
\* k, marked
EagerInnerEvents(k) ==
    LET group  == InnerInstructionsOf(all_inner_instructions, k)
        events == [j \in 1..Len(group) |->
                      parse_event_from_grpc_instruction(
                          protocols, type_filter, group[j], k, j - 1, group, EagerIndex)]
    IN  mark_arb_inner_swap_events(SelectSeq(events, LAMBDA e : e # NoEvent))

\* The events the callback receives for the outer instructions k, k + 1, ... when
\* the index is built eagerly
RECURSIVE EagerWalk(_)
EagerWalk(k) ==
    IF k >= Len(compiled_instructions) THEN <<>>
    ELSE EagerOuterEvents(k) \o EagerInnerEvents(k) \o EagerWalk(k + 1)

EagerDelivered ==
    IF \E a \in AccountKeys : should_handle(protocols, type_filter, a)
       THEN EagerWalk(0) ELSE <<>>

-----------------------------------------------------------------------------
(* Swap events and the mints of their legs *)

\* The swap variants the instruction parsers produce
SwapEventKinds ==
    {"PumpSwapBuyEvent", "PumpSwapSellEvent", "RaydiumClmmSwapEvent",
     "RaydiumClmmSwapV2Event"}

(* C38: every inner swap event, whatever its protocol or variant, yields a       *)
(* (from_mint, to_mint) pair for the segmentation into arbitrage legs.           *)
C38_EverySwapYieldsMints ==
    \A n \in 1..Len(delivered) :
       (/\ delivered[n].metadata.inner_index # NoInner
        /\ delivered[n].kind \in SwapEventKinds)
          => extract_swap_mints(delivered[n]) # <<>>

-----------------------------------------------------------------------------
(* Whirlpool swap instructions *)

\* whirlpool/parser.rs:28-43, 86, 120: a SWAP or SWAP_V2 instruction with the data
\* and the accounts its parser asks for (34 bytes; 11 accounts, 15 for SWAP_V2)
IsWhirlpoolSwap(ix) ==
    /\ ix.program_id = "Whirlpool"
    /\ is_whirlpool_swap_instruction(ix.data.disc)
    /\ Len(ix.data.args) * 8 >= 34
    /\ ix.accounts.len >= (IF ix.data.disc = "SWAP" THEN 11 ELSE 15)

\* The walk has parsed outer instruction k
OuterVisited(k) == k < index \/ (k = index /\ wpc \in {"inner", "emit"})

(* C39: a Whirlpool swap instruction (SWAP or SWAP_V2 discriminator, sufficient  *)
(* data and accounts) with Whirlpool in the allow-list yields a Whirlpool swap   *)
(* event: once the walk has passed such an outer instruction, a Whirlpool swap   *)
(* event of its position has been delivered.                                     *)
C39_WhirlpoolSwapYieldsEvent ==
    \A k \in 0..(Len(compiled_instructions) - 1) :
       (/\ "Whirlpool" \in protocols
        /\ OuterVisited(k)
        /\ IsWhirlpoolSwap(compiled_instructions[k + 1]))
          => \E n \in 1..Len(delivered) :
                /\ delivered[n].metadata.outer_index = k
                /\ delivered[n].metadata.inner_index = NoInner
                /\ delivered[n].kind \in {"WhirlpoolSwapEvent", "WhirlpoolSwapV2Event"}

-----------------------------------------------------------------------------
(* Metrics and the clients' enable_metrics settings *)

SpecMetrics == Init /\ [][MetricsNext]_vars

\* The task of client c takes a step in processing a frame
FrameStep(c) == frame_pc'[c] # frame_pc[c]

(* C40: metrics recording follows the enable_metrics setting of the client whose *)
(* frames are processed: while the task of a client created with metrics         *)
(* disabled processes a frame, no metrics counter changes, whatever the setting  *)
(* of the clients created before or after it in the same process.                *)
C40_DisabledClientRecordsNothing ==
    [][\A c \in MetricClients :
          (client_config[c] = <<FALSE>> /\ FrameStep(c))
             => event_metrics' = event_metrics]_vars

=============================================================================
